---------------------------- MODULE Spec2Model ----------------------------
(***************************************************************************)
(* Metadata resolution, canonicalization and validation of the go-github   *)
(* tools (tools/internal: metadata.go, validate.go).                       *)
(*                                                                         *)
(* A Go string is a sequence of one-character strings, so that Cut, Split  *)
(* and Join are computed the way the code computes them.  Documentation    *)
(* URLs, file names and method names are never taken apart by the code     *)
(* modelled here and stay atomic strings.                                  *)
(***************************************************************************)
EXTENDS Naturals, Sequences, FiniteSets

(***************************************************************************)
(* Bounds of the model.                                                    *)
(***************************************************************************)
MaxOps == 2
MaxMethods == 2
MaxOpNames == 2
MaxEndpoints == 3
MaxStmts == 3
MaxSaves == 2
MaxLen == 3
MaxCalls == 3
MaxProcs == 2
MaxDirs == 3
MaxAdds == 3

(***************************************************************************)
(* Go strings.                                                             *)
(***************************************************************************)
CharCode(c) ==
  CASE c = " " -> 32
    [] c = "*" -> 42
    [] c = "/" -> 47
    [] c = "G" -> 71
    [] c = "P" -> 80
    [] c = "a" -> 97
    [] c = "b" -> 98
    [] c = "x" -> 120
    [] c = "y" -> 121
    [] c = "z" -> 122
    [] c = "{" -> 123
    [] c = "}" -> 125

RECURSIVE StrLessFrom(_, _, _)
StrLessFrom(s, t, i) ==
  IF i > Len(t) THEN FALSE
  ELSE IF i > Len(s) THEN TRUE
  ELSE IF s[i] # t[i] THEN CharCode(s[i]) < CharCode(t[i])
  ELSE StrLessFrom(s, t, i + 1)

\* s < t on Go strings: bytewise lexicographic order.
StrLess(s, t) == StrLessFrom(s, t, 1)

\* The index of the first occurrence of character c in s, 0 when there is none.
IndexOf(s, c) ==
  IF \E i \in 1..Len(s) : s[i] = c
  THEN CHOOSE i \in 1..Len(s) : s[i] = c /\ \A j \in 1..(i - 1) : s[j] # c
  ELSE 0

\* strings.Cut(id, " "): the text before and after the first separator.
parseOpName(id) ==
  LET k == IndexOf(id, " ")
  IN  IF k = 0
      THEN [verb |-> id, url |-> <<>>]
      ELSE [verb |-> SubSeq(id, 1, k - 1), url |-> SubSeq(id, k + 1, Len(id))]

\* strings.Split(u, "/")
RECURSIVE Split(_)
Split(u) ==
  LET k == IndexOf(u, "/")
  IN  IF k = 0 THEN <<u>>
      ELSE <<SubSeq(u, 1, k - 1)>> \o Split(SubSeq(u, k + 1, Len(u)))

\* strings.Join(parts, "/")
RECURSIVE Join(_)
Join(parts) ==
  IF Len(parts) = 0 THEN <<>>
  ELSE IF Len(parts) = 1 THEN parts[1]
  ELSE parts[1] \o <<"/">> \o Join(Tail(parts))

\* The loop with the brace taken off the part instead.
ReplaceParamsUnwrap(parts) ==
  [i \in 1..Len(parts) |->
     IF Len(parts[i]) > 0 /\ parts[i][1] = "{" THEN Tail(parts[i]) ELSE parts[i]]

\* The loop of normalizedURL: a part that starts with "{" becomes "*".
ReplaceParams(parts) ==
  [i \in 1..Len(parts) |->
     IF Len(parts[i]) > 0 /\ parts[i][1] = "{" THEN <<"*">> ELSE parts[i]]

\* The replacement applied to the URL as a whole, not to its parts.
NormalizeMissNoSplit(u) == Join(ReplaceParams(<<u>>))

\* What normalizedURL computes on a cache miss.
NormalizeMiss(u) == Join(ReplaceParams(Split(u)))

\* normalizedURL with cache `cache` (the package-level map normalizedURLs).
normalizedURL(cache, u) ==
  IF u \in DOMAIN cache THEN cache[u] ELSE NormalizeMiss(u)

\* The normalized URL alone, the verb left out.
normalizedOpNameNoVerb(cache, name) == normalizedURL(cache, parseOpName(name).url)

normalizedOpName(cache, name) ==
  LET p == parseOpName(name)
  IN  p.verb \o <<" ">> \o normalizedURL(cache, p.url)

(***************************************************************************)
(* Operations and Go pointers.                                             *)
(*                                                                         *)
(* The layers hold []*Operation.  An entry of a layer is the record        *)
(* [Name, DocumentationURL, OpenAPIFiles]; a pointer to it is its place    *)
(* [layer, index].  An object of the resolved map carries, besides its     *)
(* fields, the place `ref` its pointer points to: NewObject for an object  *)
(* allocated by clone, the place of a layer entry for a pointer shared     *)
(* with that layer.  A write through a pointer of the map changes the      *)
(* layer entry it shares, if any.                                          *)
(***************************************************************************)
NewObject == [layer |-> "new", index |-> 0]

Operation(name, doc, files) ==
  [Name |-> name, DocumentationURL |-> doc, OpenAPIFiles |-> files]

Fields(o) == Operation(o.Name, o.DocumentationURL, o.OpenAPIFiles)

\* The empty map.
EmptyMap == [k \in {} |-> NewObject]

Put(map, k, v) == [x \in (DOMAIN map) \cup {k} |-> IF x = k THEN v ELSE map[x]]

\* The operation itself handed back: a pointer shared with the layer.
cloneShared(o, at) ==
  [Name |-> o.Name, DocumentationURL |-> o.DocumentationURL,
   OpenAPIFiles |-> o.OpenAPIFiles, ref |-> at]

\* (o *Operation).clone(), o being the entry at place `at`: a new object
\* holding copies of o's fields.
clone(o, at) ==
  [Name |-> o.Name, DocumentationURL |-> o.DocumentationURL,
   OpenAPIFiles |-> o.OpenAPIFiles, ref |-> NewObject]

\* m.resolvedOps[name].DocumentationURL = doc
SetDocumentationURL(m, name, doc) ==
  LET ref == m.resolvedOps.ops[name].ref
      m1 == [m EXCEPT !.resolvedOps.ops[name].DocumentationURL = doc]
  IN  IF ref.layer = "new" THEN m1
      ELSE [m1 EXCEPT ![ref.layer][ref.index].DocumentationURL = doc]

\* m.resolvedOps[name].OpenAPIFiles = files
SetOpenAPIFiles(m, name, files) ==
  LET ref == m.resolvedOps.ops[name].ref
      m1 == [m EXCEPT !.resolvedOps.ops[name].OpenAPIFiles = files]
  IN  IF ref.layer = "new" THEN m1
      ELSE [m1 EXCEPT ![ref.layer][ref.index].OpenAPIFiles = files]

\* The first two loops of resolve: m.resolvedOps[op.Name] = op.clone()
RECURSIVE SeedFrom(_, _, _)
SeedFrom(m, layer, i) ==
  IF i > Len(m[layer]) THEN m
  ELSE SeedFrom(
         [m EXCEPT !.resolvedOps.ops =
            Put(@, m[layer][i].Name, clone(m[layer][i], [layer |-> layer, index |-> i]))],
         layer, i + 1)

\* The override's fields written whether or not they are empty.
ApplyOverrideAlways(m, i) ==
  LET override == clone(m.OverrideOps[i], [layer |-> "OverrideOps", index |-> i])
      m1 == IF override.Name \in DOMAIN m.resolvedOps.ops THEN m
            ELSE [m EXCEPT !.resolvedOps.ops = Put(@, override.Name, override)]
  IN  SetOpenAPIFiles(SetDocumentationURL(m1, override.Name, override.DocumentationURL),
                      override.Name, override.OpenAPIFiles)

\* One iteration of the third loop of resolve.
ApplyOverride(m, i) ==
  LET override == clone(m.OverrideOps[i], [layer |-> "OverrideOps", index |-> i])
      m1 == IF override.Name \in DOMAIN m.resolvedOps.ops THEN m
            ELSE [m EXCEPT !.resolvedOps.ops = Put(@, override.Name, override)]
      m2 == IF override.DocumentationURL # ""
            THEN SetDocumentationURL(m1, override.Name, override.DocumentationURL)
            ELSE m1
  IN  IF Len(override.OpenAPIFiles) > 0
      THEN SetOpenAPIFiles(m2, override.Name, override.OpenAPIFiles)
      ELSE m2

RECURSIVE ApplyOverridesFrom(_, _)
ApplyOverridesFrom(m, i) ==
  IF i > Len(m.OverrideOps) THEN m
  ELSE ApplyOverridesFrom(ApplyOverride(m, i), i + 1)

\* The merge with the manual layer seeded before the openapi layer.
resolveManualFirst(m) ==
  IF ~m.resolvedOps.isNil THEN m
  ELSE LET m0 == [m EXCEPT !.resolvedOps = [isNil |-> FALSE, ops |-> EmptyMap]]
           m1 == SeedFrom(m0, "ManualOps", 1)
           m2 == SeedFrom(m1, "OpenapiOps", 1)
       IN  ApplyOverridesFrom(m2, 1)

\* The merge that runs at every call.
resolveEveryTime(m) ==
  LET m0 == [m EXCEPT !.resolvedOps = [isNil |-> FALSE, ops |-> EmptyMap]]
      m1 == SeedFrom(m0, "OpenapiOps", 1)
      m2 == SeedFrom(m1, "ManualOps", 1)
  IN  ApplyOverridesFrom(m2, 1)

\* (m *Metadata).resolve(): the merge runs when resolvedOps is nil, once.
resolve(m) ==
  IF ~m.resolvedOps.isNil THEN m
  ELSE LET m0 == [m EXCEPT !.resolvedOps = [isNil |-> FALSE, ops |-> EmptyMap]]
           m1 == SeedFrom(m0, "OpenapiOps", 1)
           m2 == SeedFrom(m1, "ManualOps", 1)
       IN  ApplyOverridesFrom(m2, 1)

\* The ascending order of sortOperations: by URL, then by verb.
opLess(a, b) ==
  LET l == parseOpName(a.Name)
      r == parseOpName(b.Name)
  IN  IF l.url # r.url THEN StrLess(l.url, r.url) ELSE StrLess(l.verb, r.verb)

\* The operations of set S (of distinct names) in the order of sortOperations.
RECURSIVE sortOperations(_)
sortOperations(S) ==
  IF S = {} THEN <<>>
  ELSE LET least == CHOOSE o \in S : \A p \in S \ {o} : opLess(o, p)
       IN  <<least>> \o sortOperations(S \ {least})

\* The verbatim lookup that never finds anything.
hasOperationNever(m, name) == FALSE

\* m.getOperation(name) != nil.
hasOperation(m, name) == name \in DOMAIN resolve(m).resolvedOps.ops

\* The lookup that compares the verbs of the names and not their URLs.
getOperationsWithVerb(m, cache, name) ==
  LET ops == resolve(m).resolvedOps.ops
  IN  sortOperations({ops[n] : n \in {k \in DOMAIN ops :
                                         parseOpName(k).verb = parseOpName(name).verb}})

\* m.getOperationsWithNormalizedName(name) after resolve, sorted.
getOperationsWithNormalizedName(m, cache, name) ==
  LET ops == resolve(m).resolvedOps.ops
      norm == normalizedOpName(cache, name)
  IN  sortOperations({ops[n] : n \in {k \in DOMAIN ops : normalizedOpName(cache, k) = norm}})

\* The cache after the calls of getOperationsWithNormalizedName for `names`.
CacheAfter(m, cache, names) ==
  LET ops == resolve(m).resolvedOps.ops
      urls == IF names = {} THEN {}
              ELSE {parseOpName(n).url : n \in names \cup DOMAIN ops}
  IN  [u \in (DOMAIN cache) \cup urls |-> normalizedURL(cache, u)]

(***************************************************************************)
(* Canonicalization.                                                       *)
(***************************************************************************)
NoError == [msg |-> "", method |-> "", opName |-> <<>>, candidates |-> <<>>]

ErrNoMatch(method, opName) ==
  [msg |-> "method %q has an operation that can not be canonized to any defined name: %s",
   method |-> method, opName |-> opName, candidates |-> <<>>]

ErrMultiple(method, opName, ops) ==
  [msg |-> "method %q has an operation that can be canonized to multiple defined names",
   method |-> method, opName |-> opName,
   candidates |-> [i \in 1..Len(ops) |-> ops[i].Name]]

\* The lookup that looks at the last method only.
hasMethodLastOnly(m, name) ==
  Len(m.Methods) > 0 /\ m.Methods[Len(m.Methods)].Name = name

\* m.getMethod(name) != nil
hasMethod(m, name) == \E i \in 1..Len(m.Methods) : m.Methods[i].Name = name

\* The body of the inner loop of CanonizeMethodOperations for entry oi of
\* method mi, and the rest of the two loops after it.
RECURSIVE CanonizeFrom(_, _, _, _)
CanonizeFrom(m, cache, mi, oi) ==
  IF mi > Len(m.Methods) THEN [m |-> m, cache |-> cache, err |-> NoError]
  ELSE IF oi > Len(m.Methods[mi].OpNames) THEN CanonizeFrom(m, cache, mi + 1, 1)
  ELSE LET method == m.Methods[mi]
           opName == method.OpNames[oi]
           r == resolve(m)
       IN  IF hasOperation(r, opName) THEN CanonizeFrom(r, cache, mi, oi + 1)
           ELSE LET ops == getOperationsWithNormalizedName(r, cache, opName)
                    c == CacheAfter(r, cache, {opName})
                IN  IF Len(ops) = 0
                    THEN [m |-> r, cache |-> c, err |-> ErrNoMatch(method.Name, opName)]
                    ELSE IF Len(ops) = 1
                    THEN CanonizeFrom([r EXCEPT !.Methods[mi].OpNames[oi] = ops[1].Name],
                                      c, mi, oi + 1)
                    ELSE [m |-> r, cache |-> c, err |-> ErrMultiple(method.Name, opName, ops)]

\* The walk that finds the canonical names and stores none of them.
CanonizeWithoutRewrite(m, cache) ==
  [CanonizeFrom(m, cache, 1, 1) EXCEPT !.m.Methods = m.Methods]

\* The walk that gives the mapping back as it was when it fails.
CanonizeAllOrNothing(m, cache) ==
  LET c == CanonizeFrom(m, cache, 1, 1)
  IN  IF c.err = NoError THEN c ELSE [c EXCEPT !.m.Methods = m.Methods]

CanonizeMethodOperations(m, cache) == CanonizeFrom(m, cache, 1, 1)

(***************************************************************************)
(* Validation.  An issue is the format string of its message with the      *)
(* method name and the operation name it is formatted with.                *)
(***************************************************************************)
Issue(msg, method, op) == [msg |-> msg, method |-> method, op |-> op]

MsgMissingInMetadata == "Method %s does not exist in metadata.yaml. Please add it."
MsgMethodDuplicated == "Method %s is duplicated in metadata.yaml."
MsgMissingInPackage == "Method %s in metadata.yaml does not exist in github package."
MsgNoOperations == "Method %s in metadata.yaml does not have any operations."
MsgDuplicateOperation == "Method %s in metadata.yaml has duplicate operation: %s."
MsgNotCanonical == "Method %s has operation which is does not use the canonical name. You may be able to automatically fix this by running 'script/metadata.sh canonize': %s."
MsgNotDefined == "Method %s has operation which is not defined in metadata.yaml: %s."
MsgDupOpenapi == "Name duplicated in openapi_operations: %s"
MsgDupManual == "Name duplicated in operations: %s"
MsgInBoth == "Name exists in both operations and openapi_operations: %s"
MsgDupOverride == "Name duplicated in override_operations: %s"
MsgOverrideUnknown == "Name in override_operations does not exist in operations or openapi_operations: %s"

validateServiceMethodsExist(result, m, serviceMethods) ==
  LET missing == SelectSeq(serviceMethods, LAMBDA method : ~hasMethod(m, method))
  IN  result \o [i \in 1..Len(missing) |-> Issue(MsgMissingInMetadata, missing[i], <<>>)]

\* The loop of validateMetaMethodOperations from entry oi on; v is
\* [m, cache, result].
RECURSIVE MetaMethodOperationsFrom(_, _, _)
MetaMethodOperationsFrom(v, method, oi) ==
  IF oi > Len(method.OpNames) THEN v
  ELSE LET opName == method.OpNames[oi]
           seen == \E j \in 1..(oi - 1) : method.OpNames[j] = opName
           res1 == IF seen
                   THEN Append(v.result, Issue(MsgDuplicateOperation, method.Name, opName))
                   ELSE v.result
           r == resolve(v.m)
       IN  IF hasOperation(r, opName)
           THEN MetaMethodOperationsFrom([v EXCEPT !.m = r, !.result = res1], method, oi + 1)
           ELSE LET normalizedMatch == getOperationsWithNormalizedName(r, v.cache, opName)
                    c == CacheAfter(r, v.cache, {opName})
                    msg == IF Len(normalizedMatch) > 0 THEN MsgNotCanonical ELSE MsgNotDefined
                IN  MetaMethodOperationsFrom(
                      [m |-> r, cache |-> c,
                       result |-> Append(res1, Issue(msg, method.Name, opName))],
                      method, oi + 1)

\* The operation names of a method left unexamined.
validateMetaMethodOperationsNoLookup(v, method) ==
  IF Len(method.OpNames) = 0
  THEN [v EXCEPT !.result = Append(@, Issue(MsgNoOperations, method.Name, <<>>))]
  ELSE v

validateMetaMethodOperations(v, method) ==
  LET res == IF Len(method.OpNames) = 0
             THEN Append(v.result, Issue(MsgNoOperations, method.Name, <<>>))
             ELSE v.result
  IN  MetaMethodOperationsFrom([v EXCEPT !.result = res], method, 1)

\* The loop of validateMetadataMethods from method mi on.
RECURSIVE MetadataMethodsFrom(_, _, _)
MetadataMethodsFrom(v, serviceMethods, mi) ==
  IF mi > Len(v.m.Methods) THEN v
  ELSE LET method == v.m.Methods[mi]
           seen == \E j \in 1..(mi - 1) : v.m.Methods[j].Name = method.Name
           smLookup == \E k \in 1..Len(serviceMethods) : serviceMethods[k] = method.Name
       IN  IF seen
           THEN MetadataMethodsFrom(
                  [v EXCEPT !.result = Append(@, Issue(MsgMethodDuplicated, method.Name, <<>>))],
                  serviceMethods, mi + 1)
           ELSE LET res == IF ~smLookup
                           THEN Append(v.result, Issue(MsgMissingInPackage, method.Name, <<>>))
                           ELSE v.result
                IN  MetadataMethodsFrom(
                      validateMetaMethodOperations([v EXCEPT !.result = res], method),
                      serviceMethods, mi + 1)

validateMetadataMethods(v, serviceMethods) == MetadataMethodsFrom(v, serviceMethods, 1)

\* The issues of one loop of validateOperations, entry by entry.
RECURSIVE OpenapiIssuesFrom(_, _)
OpenapiIssuesFrom(ops, i) ==
  IF i > Len(ops) THEN <<>>
  ELSE (IF \E j \in 1..(i - 1) : ops[j].Name = ops[i].Name
        THEN <<Issue(MsgDupOpenapi, "", ops[i].Name)>> ELSE <<>>)
       \o OpenapiIssuesFrom(ops, i + 1)

RECURSIVE ManualIssuesFrom(_, _, _)
ManualIssuesFrom(ops, openapi, i) ==
  IF i > Len(ops) THEN <<>>
  ELSE (IF \E j \in 1..(i - 1) : ops[j].Name = ops[i].Name
        THEN <<Issue(MsgDupManual, "", ops[i].Name)>> ELSE <<>>)
       \o (IF \E j \in 1..Len(openapi) : openapi[j].Name = ops[i].Name
           THEN <<Issue(MsgInBoth, "", ops[i].Name)>> ELSE <<>>)
       \o ManualIssuesFrom(ops, openapi, i + 1)

RECURSIVE OverrideIssuesFrom(_, _, _, _)
OverrideIssuesFrom(ops, manual, openapi, i) ==
  IF i > Len(ops) THEN <<>>
  ELSE (IF \E j \in 1..(i - 1) : ops[j].Name = ops[i].Name
        THEN <<Issue(MsgDupOverride, "", ops[i].Name)>> ELSE <<>>)
       \o (IF /\ ~\E j \in 1..Len(manual) : manual[j].Name = ops[i].Name
              /\ ~\E j \in 1..Len(openapi) : openapi[j].Name = ops[i].Name
           THEN <<Issue(MsgOverrideUnknown, "", ops[i].Name)>> ELSE <<>>)
       \o OverrideIssuesFrom(ops, manual, openapi, i + 1)

\* The override names looked up in the manual layer alone.
validateOperationsManualOnly(result, m) ==
  result \o OpenapiIssuesFrom(m.OpenapiOps, 1)
         \o ManualIssuesFrom(m.ManualOps, m.OpenapiOps, 1)
         \o OverrideIssuesFrom(m.OverrideOps, m.ManualOps, <<>>, 1)

\* The manual names not looked up in the openapi layer.
validateOperationsNoCross(result, m) ==
  result \o OpenapiIssuesFrom(m.OpenapiOps, 1)
         \o ManualIssuesFrom(m.ManualOps, <<>>, 1)
         \o OverrideIssuesFrom(m.OverrideOps, m.ManualOps, m.OpenapiOps, 1)

validateOperations(result, m) ==
  result \o OpenapiIssuesFrom(m.OpenapiOps, 1)
         \o ManualIssuesFrom(m.ManualOps, m.OpenapiOps, 1)
         \o OverrideIssuesFrom(m.OverrideOps, m.ManualOps, m.OpenapiOps, 1)

\* A validation that returns as soon as one of its passes found an issue.
ValidateMetadataStopsAtFirst(m, cache, serviceMethods) ==
  LET r1 == validateServiceMethodsExist(<<>>, m, serviceMethods)
      v == validateMetadataMethods([m |-> m, cache |-> cache, result |-> r1], serviceMethods)
  IN  IF Len(r1) > 0 THEN [m |-> m, cache |-> cache, result |-> r1]
      ELSE IF Len(v.result) > 0 THEN v
      ELSE [v EXCEPT !.result = validateOperations(v.result, v.m)]

\* ValidateMetadata after getServiceMethods returned serviceMethods.
ValidateMetadata(m, cache, serviceMethods) ==
  LET r1 == validateServiceMethodsExist(<<>>, m, serviceMethods)
      v == validateMetadataMethods([m |-> m, cache |-> cache, result |-> r1], serviceMethods)
  IN  [v EXCEPT !.result = validateOperations(v.result, v.m)]

(***************************************************************************)
(* The helper-resolution pass over the extracted endpoints.                *)
(***************************************************************************)
\* An Endpoint, without its comment lines.
Endpoint(serviceName, endpointName, httpMethod, helperMethod, urlFormats) ==
  [serviceName |-> serviceName, endpointName |-> endpointName,
   httpMethod |-> httpMethod, helperMethod |-> helperMethod,
   urlFormats |-> urlFormats]

\* fmt.Sprintf("%v.%v", serviceName, methodName): the two names side by side.
FullName(serviceName, methodName) == <<serviceName, methodName>>

NoHelperError == [msg |-> "", helper |-> <<>>, method |-> <<>>]
ErrHelperNotFound(fullName, k) ==
  [msg |-> "unable to find helper method %q for %q", helper |-> fullName, method |-> k]
ErrHelperEmpty(fullName, k) ==
  [msg |-> "helper method %q for %q has empty httpMethod: %#v", helper |-> fullName,
   method |-> k]

\* The body of the loop of resolveHelpers for the endpoint under key k; the
\* endpoints are pointers, so the verb written here is what a later lookup of
\* k reads.
ResolveHelper(endpoints, k) ==
  LET v == endpoints[k]
      fullName == FullName(v.serviceName, v.helperMethod)
  IN  IF v.httpMethod = "" /\ v.helperMethod # ""
      THEN IF fullName \notin DOMAIN endpoints
           THEN [endpoints |-> endpoints, err |-> ErrHelperNotFound(fullName, k)]
           ELSE IF endpoints[fullName].httpMethod = ""
           THEN [endpoints |-> endpoints, err |-> ErrHelperEmpty(fullName, k)]
           ELSE [endpoints |-> [endpoints EXCEPT ![k].httpMethod = endpoints[fullName].httpMethod],
                 err |-> NoHelperError]
      ELSE [endpoints |-> endpoints, err |-> NoHelperError]

\* The loop of resolveHelpers over the keys in the order the map yields them,
\* from the i-th on.
RECURSIVE ResolveHelpersFrom(_, _, _)
ResolveHelpersFrom(endpoints, order, i) ==
  IF i > Len(order) THEN [endpoints |-> endpoints, err |-> NoHelperError]
  ELSE LET r == ResolveHelper(endpoints, order[i])
       IN  IF r.err # NoHelperError THEN r
           ELSE ResolveHelpersFrom(r.endpoints, order, i + 1)

resolveHelpers(endpoints, order) == ResolveHelpersFrom(endpoints, order, 1)

\* The orders in which a range over a map with the keys S can yield them.
IterationOrders(S) ==
  {o \in [1..Cardinality(S) -> S] : \A i, j \in 1..Cardinality(S) : o[i] = o[j] => i = j}

(***************************************************************************)
(* Body analysis: bodyData.parseBody over the statements of a method body. *)
(* Source text (names, literals, verbs) is a sequence of characters; a     *)
(* string literal carries its double quotes, as ast.BasicLit.Value does.   *)
(***************************************************************************)
Quote == "\""

\* strings.Trim(s, `"`): s without its leading and trailing double quotes.
RECURSIVE TrimLeft(_)
TrimLeft(s) == IF Len(s) > 0 /\ s[1] = Quote THEN TrimLeft(Tail(s)) ELSE s

RECURSIVE TrimRight(_)
TrimRight(s) ==
  IF Len(s) > 0 /\ s[Len(s)] = Quote THEN TrimRight(SubSeq(s, 1, Len(s) - 1)) ELSE s

Trim(s) == TrimRight(TrimLeft(s))

\* strconv.Unquote(s) for a double-quoted literal without escapes: it fails on
\* anything that is not between two double quotes.
CanUnquote(s) ==
  /\ Len(s) >= 2
  /\ s[1] = Quote
  /\ s[Len(s)] = Quote
  /\ \A i \in 2..(Len(s) - 1) : s[i] # Quote

Unquote(s) == SubSeq(s, 2, Len(s) - 1)

HasPrefix(s, c) == Len(s) > 0 /\ s[1] = c

lhsrhs(lhs, rhs) == [lhs |-> lhs, rhs |-> rhs]

\* The expressions on the right of an assignment: a basic literal, a call as
\* processCallExpr reports it (receiver, function name, arguments), or one
\* of the shapes processAssignStmt passes over.
BasicLit(value) == [e |-> "BasicLit", value |-> value]
CallExpr(recv, funcName, args) ==
  [e |-> "CallExpr", recv |-> recv, funcName |-> funcName, args |-> args]
OtherExpr == [e |-> "Ident"]

\* helperOverrides["s.search"].
\* An override that gives the argument itself as the URL.
SearchOverrideBare(arg) ==
  [httpMethod |-> <<"G", "E", "T">>, url |-> arg]

SearchOverride(arg) ==
  [httpMethod |-> <<"G", "E", "T">>,
   url |-> <<"s", "e", "a", "r", "c", "h", "/">> \o arg]

\* What processAssignStmt has found after the right-hand expressions from the
\* i-th on; r is [httpMethod, urlVarName, helperMethod, assignments].
RECURSIVE AssignRhsFrom(_, _, _, _)
AssignRhsFrom(r, receiverName, stmt, i) ==
  IF i > Len(stmt.rhs) THEN r
  ELSE LET expr == stmt.rhs[i]
           lhs == stmt.lhs
       IN  IF expr.e = "BasicLit"
           THEN LET v == Trim(expr.value)
                IN  AssignRhsFrom(
                      IF ~HasPrefix(v, "?")
                      THEN [r EXCEPT !.assignments = Append(@, lhsrhs(lhs[i], v))]
                      ELSE r,
                      receiverName, stmt, i + 1)
           ELSE IF expr.e = "CallExpr"
           THEN LET args == expr.args
                    r1 == CASE expr.funcName = "addOptions" ->
                                 IF Trim(args[1]) # args[1]
                                 THEN [r EXCEPT !.assignments =
                                                  Append(@, lhsrhs(lhs[i], Trim(args[1]))),
                                                !.urlVarName = lhs[i]]
                                 ELSE [r EXCEPT !.urlVarName = args[1]]
                            [] expr.funcName = "Sprintf" ->
                                 [r EXCEPT !.assignments =
                                             Append(@, lhsrhs(lhs[i], Trim(args[1])))]
                            [] expr.funcName = "NewRequest" ->
                                 [r EXCEPT !.httpMethod = Trim(args[1]),
                                           !.urlVarName = args[2]]
                            [] expr.funcName = "NewUploadRequest" ->
                                 [r EXCEPT !.httpMethod = <<"P", "O", "S", "T">>,
                                           !.urlVarName = args[1]]
                            [] expr.funcName = "roundTripWithOptionalFollowRedirect" ->
                                 [r EXCEPT !.httpMethod = <<"G", "E", "T">>,
                                           !.urlVarName = args[2]]
                            [] OTHER -> r
                    r2 == IF /\ expr.recv = receiverName
                             /\ Len(args) > 1
                             /\ args[1] = <<"c", "t", "x">>
                          THEN IF expr.recv = "s" /\ expr.funcName = "search"
                               THEN LET o == SearchOverride(Trim(args[2]))
                                    IN  [r1 EXCEPT !.httpMethod = o.httpMethod,
                                                   !.urlVarName = <<"u">>,
                                                   !.assignments = <<lhsrhs(<<"u">>, o.url)>>]
                               ELSE [r1 EXCEPT !.urlVarName = args[2],
                                               !.helperMethod = expr.funcName]
                          ELSE r1
                IN  AssignRhsFrom(r2, receiverName, stmt, i + 1)
           ELSE AssignRhsFrom(r, receiverName, stmt, i + 1)

processAssignStmt(receiverName, stmt) ==
  AssignRhsFrom([httpMethod |-> <<>>, urlVarName |-> <<>>, helperMethod |-> "",
                 assignments |-> <<>>],
                receiverName, stmt, 1)

\* The statements of a body.
AssignStmt(lhs, rhs) == [kind |-> "AssignStmt", lhs |-> lhs, rhs |-> rhs]
IfStmt(body, else) == [kind |-> "IfStmt", body |-> body, else |-> else]
BlockStmt(list) == [kind |-> "BlockStmt", list |-> list]
NoElse == [kind |-> "nil"]
ReturnStmt(results) == [kind |-> "ReturnStmt", results |-> results]
PassedOver(kind) == [kind |-> kind]

\* A fresh bodyData for a method with the given receiver name.
bodyData(receiverName) ==
  [receiverName |-> receiverName, httpMethod |-> <<>>, urlVarName |-> <<>>,
   urlFormats |-> <<>>, assignments |-> <<>>, helperMethod |-> ""]

NoBodyError == [msg |-> "", first |-> <<>>, second |-> <<>>]
ErrTwoMethods(first, second) ==
  [msg |-> "found two httpMethod values: %q and %q", first |-> first, second |-> second]
ErrHelperCtx == [msg |-> "expected helper function to get ctx as first arg: %#v, %#v",
                 first |-> <<>>, second |-> <<>>]
ErrUnhandledStmt == [msg |-> "unhandled stmt type: %T", first |-> <<>>, second |-> <<>>]
ErrUnhandledElse == [msg |-> "unhandled else stmt type %T", first |-> <<>>, second |-> <<>>]

\* Only the last assignment to name.
RhsOfLastOnly(assignments, name) ==
  LET hits == SelectSeq(assignments, LAMBDA lr : lr.lhs = name)
  IN  IF Len(hits) = 0 THEN <<>> ELSE <<hits[Len(hits)].rhs>>

\* The right sides of the assignments to name, in order.
RhsOf(assignments, name) ==
  LET hits == SelectSeq(assignments, LAMBDA lr : lr.lhs = name)
  IN  [k \in 1..Len(hits) |-> hits[k].rhs]

\* An analysis in which a second, different verb replaces the first.
ParseAssignLastVerbWins(st, stmt) ==
  LET b == st.b
      p == processAssignStmt(b.receiverName, stmt)
      b1 == [b EXCEPT !.httpMethod = IF p.httpMethod # <<>> THEN p.httpMethod ELSE @,
                      !.helperMethod = IF p.helperMethod # "" THEN p.helperMethod ELSE @,
                      !.assignments = @ \o p.assignments]
      b2 == IF CanUnquote(p.urlVarName)
            THEN [b1 EXCEPT !.urlFormats = Append(@, Unquote(p.urlVarName))]
            ELSE b1
      b3 == IF b2.urlVarName = <<>> /\ p.urlVarName # <<>>
            THEN [b2 EXCEPT !.urlVarName = p.urlVarName,
                            !.urlFormats = @ \o RhsOf(b2.assignments, p.urlVarName)]
            ELSE b2
  IN  [st EXCEPT !.b = b3]

\* The AssignStmt case of parseBody; st is [b, err, analyzed].
ParseAssign(st, stmt) ==
  LET b == st.b
      p == processAssignStmt(b.receiverName, stmt)
      b1 == [b EXCEPT !.httpMethod = IF p.httpMethod # <<>> THEN p.httpMethod ELSE @,
                      !.helperMethod = IF p.helperMethod # "" THEN p.helperMethod ELSE @,
                      !.assignments = @ \o p.assignments]
      b2 == IF CanUnquote(p.urlVarName)
            THEN [b1 EXCEPT !.urlFormats = Append(@, Unquote(p.urlVarName))]
            ELSE b1
      b3 == IF b2.urlVarName = <<>> /\ p.urlVarName # <<>>
            THEN [b2 EXCEPT !.urlVarName = p.urlVarName,
                            !.urlFormats = @ \o RhsOf(b2.assignments, p.urlVarName)]
            ELSE b2
  IN  IF b.httpMethod # <<>> /\ p.httpMethod # <<>> /\ b.httpMethod # p.httpMethod
      THEN [st EXCEPT !.err = ErrTwoMethods(b.httpMethod, p.httpMethod)]
      ELSE [st EXCEPT !.b = b3]

\* The ReturnStmt case of parseBody.
ParseReturn(st, stmt) ==
  LET b == st.b
      call == stmt.results[1]
  IN  IF Len(stmt.results) > 0 /\ call.e = "CallExpr"
      THEN IF b.httpMethod = <<>> /\ Len(call.args) > 1 /\ call.recv = b.receiverName
           THEN IF call.args[1] # <<"c", "t", "x">>
                THEN [st EXCEPT !.err = ErrHelperCtx]
                ELSE IF Len(b.assignments) = 0 /\ Len(b.urlFormats) = 0
                THEN [st EXCEPT !.b.urlFormats = Append(@, Trim(call.args[2])),
                                !.b.helperMethod = call.funcName]
                ELSE IF Len(RhsOf(b.assignments, call.args[2])) > 0
                THEN [st EXCEPT !.b.urlVarName = call.args[2],
                                !.b.urlFormats = @ \o RhsOf(b.assignments, call.args[2]),
                                !.b.helperMethod = call.funcName]
                ELSE st
           ELSE st
      ELSE st

RECURSIVE ParseBodyFrom(_, _, _)
RECURSIVE parseIf(_, _)

\* One turn of the loop of parseBody: the switch on the statement's type.
ParseStmt(st, stmt) ==
  LET seen == [st EXCEPT !.analyzed = Append(@, stmt)]
  IN  CASE stmt.kind = "AssignStmt" -> ParseAssign(seen, stmt)
        [] stmt.kind = "IfStmt" -> parseIf(st, stmt)
        [] stmt.kind = "ReturnStmt" -> ParseReturn(seen, stmt)
        [] stmt.kind \in {"DeclStmt", "DeferStmt", "ExprStmt", "RangeStmt", "SwitchStmt"} ->
             seen
        [] OTHER -> [seen EXCEPT !.err = ErrUnhandledStmt]

\* The loop of parseBody over the statements of a block, from the i-th on.
ParseBodyFrom(st, list, i) ==
  IF i > Len(list) THEN st
  ELSE LET s1 == ParseStmt(st, list[i])
       IN  IF s1.err # NoBodyError THEN s1 ELSE ParseBodyFrom(s1, list, i + 1)

\* A conditional whose else is analyzed from the accumulator as it was before
\* the if branch: the branches are alternatives and the last one wins.
parseIfElseAfresh(st, stmt) ==
  LET s1 == ParseBodyFrom(st, stmt.body, 1)
  IN  IF s1.err # NoBodyError THEN s1
      ELSE CASE stmt.else.kind = "nil" -> s1
             [] stmt.else.kind = "BlockStmt" -> ParseBodyFrom(st, stmt.else.list, 1)
             [] stmt.else.kind = "IfStmt" -> parseIf(st, stmt.else)
             [] OTHER -> [s1 EXCEPT !.err = ErrUnhandledElse]

parseIf(st, stmt) ==
  LET s1 == ParseBodyFrom(st, stmt.body, 1)
  IN  IF s1.err # NoBodyError THEN s1
      ELSE CASE stmt.else.kind = "nil" -> s1
             [] stmt.else.kind = "BlockStmt" -> ParseBodyFrom(s1, stmt.else.list, 1)
             [] stmt.else.kind = "IfStmt" -> parseIf(s1, stmt.else)
             [] OTHER -> [s1 EXCEPT !.err = ErrUnhandledElse]

\* b.parseBody(body) on the bodyData b; analyzed lists the assignments,
\* returns and other plain statements the analysis went through.
parseBody(b, body) ==
  ParseBodyFrom([b |-> b, err |-> NoBodyError, analyzed |-> <<>>], body.list, 1)

(***************************************************************************)
(* The documents and inventories the model starts from.                    *)
(***************************************************************************)
\* "G /a/{x}", "G /a/{y}", "G /a/{z}": one URL shape, three spellings.
NameAx == <<"G", " ", "/", "a", "/", "{", "x", "}">>
NameAy == <<"G", " ", "/", "a", "/", "{", "y", "}">>
NameAz == <<"G", " ", "/", "a", "/", "{", "z", "}">>
\* "P /a/{x}": the same URL under another verb.  "G /b": no parameter.
NamePx == <<"P", " ", "/", "a", "/", "{", "x", "}">>
NameB == <<"G", " ", "/", "b">>

OpenapiEntry(n) == Operation(n, "docs/openapi", <<"descriptions/api.json">>)
ManualEntry(n) == Operation(n, "docs/manual", <<>>)
OverrideEntries(names) ==
  {Operation(n, "", <<>>) : n \in names}
    \cup {Operation(n, "docs/override", <<>>) : n \in names}
    \cup {Operation(n, "", <<"descriptions/override.json">>) : n \in names}

SeqsUpTo(S, n) == UNION {[1..k -> S] : k \in 0..n}

\* The subsequences of s: the selections of its elements, in its order.
RECURSIVE SubSeqs(_)
SubSeqs(s) ==
  IF Len(s) = 0 THEN {<<>>}
  ELSE LET rest == SubSeqs(Tail(s))
       IN  rest \cup {<<Head(s)>> \o r : r \in rest}

\* Method names, in the ascending order getServiceMethods sorts them in.
MethodDelete == "AService.Delete"
MethodGet == "AService.Get"
MethodList == "AService.List"
MethodMissing == "AService.MissingFromMetadata"

(***************************************************************************)
(* Saving and loading: Metadata.SaveFile and LoadMetadataFile.             *)
(*                                                                         *)
(* sort.Slice is not stable: it may leave elements that compare equal in   *)
(* any order.  Its outcome is any arrangement of the slice in which no     *)
(* element is less than one before it.  The less function is given as the *)
(* set of the pairs of indexes it holds for.                               *)
(***************************************************************************)
SortedSlices(s, less) ==
  {[i \in 1..Len(s) |-> s[p[i]]] :
     p \in {q \in IterationOrders(1..Len(s)) :
              \A i, j \in 1..Len(s) : i < j => <<q[j], q[i]>> \notin less}}

\* The less function of sortOperations on slice ops: the pairs of indexes
\* <<i, j>> with less(i, j).
opLessIn(ops) == {x \in (1..Len(ops)) \X (1..Len(ops)) : opLess(ops[x[1]], ops[x[2]])}

\* The order of sort.Strings on slice s.
StrLessIn(s) == {x \in (1..Len(s)) \X (1..Len(s)) : StrLess(s[x[1]], s[x[2]])}

\* The method names of the documents, in ascending order of their text.
MethodNames == <<MethodDelete, MethodGet, MethodList, MethodMissing>>

MethodRank(name) == CHOOSE i \in 1..Len(MethodNames) : MethodNames[i] = name

\* m.Methods[i].Name < m.Methods[j].Name
methodLess(a, b) == MethodRank(a.Name) < MethodRank(b.Name)

methodLessIn(methods) ==
  {x \in (1..Len(methods)) \X (1..Len(methods)) : methodLess(methods[x[1]], methods[x[2]])}

\* sort.Strings(method.OpNames): equal strings are the same string, so the
\* sorted arrangements are one sequence.
SortStrings(s) == CHOOSE t \in SortedSlices(s, StrLessIn(s)) : TRUE

\* A field tagged omitempty is left out of the encoding when it is empty.
EncodeOperation(o) ==
  LET keys == (IF Len(o.Name) > 0 THEN {"name"} ELSE {})
                \cup (IF o.DocumentationURL # "" THEN {"documentation_url"} ELSE {})
                \cup (IF Len(o.OpenAPIFiles) > 0 THEN {"openapi_files"} ELSE {})
  IN  [k \in keys |-> CASE k = "name" -> o.Name
                        [] k = "documentation_url" -> o.DocumentationURL
                        [] OTHER -> o.OpenAPIFiles]

EncodeMethod(method) ==
  [k \in {"name"} \cup (IF Len(method.OpNames) > 0 THEN {"operations"} ELSE {}) |->
     IF k = "name" THEN method.Name ELSE method.OpNames]

EncodeOperations(ops) == [i \in 1..Len(ops) |-> EncodeOperation(ops[i])]

\* enc.Encode(m): the exported fields under their yaml keys.
Encode(m, commit) ==
  [k \in {"operations", "operation_overrides", "openapi_commit", "openapi_operations"}
           \cup (IF Len(m.Methods) > 0 THEN {"methods"} ELSE {}) |->
     CASE k = "methods" -> [i \in 1..Len(m.Methods) |-> EncodeMethod(m.Methods[i])]
       [] k = "operations" -> EncodeOperations(m.ManualOps)
       [] k = "operation_overrides" -> EncodeOperations(m.OverrideOps)
       [] k = "openapi_commit" -> commit
       [] OTHER -> EncodeOperations(m.OpenapiOps)]

\* A key that is absent leaves the field at its zero value.
DecodeOperation(y) ==
  Operation(IF "name" \in DOMAIN y THEN y["name"] ELSE <<>>,
            IF "documentation_url" \in DOMAIN y THEN y["documentation_url"] ELSE "",
            IF "openapi_files" \in DOMAIN y THEN y["openapi_files"] ELSE <<>>)

DecodeMethod(y) ==
  [Name |-> y["name"],
   OpNames |-> IF "operations" \in DOMAIN y THEN y["operations"] ELSE <<>>]

DecodeOperations(ys) == [i \in 1..Len(ys) |-> DecodeOperation(ys[i])]

\* yaml.Unmarshal(b, &meta) into a new Metadata: nothing resolved yet.
Decode(doc) ==
  [Methods |-> IF "methods" \in DOMAIN doc
               THEN [i \in 1..Len(doc["methods"]) |-> DecodeMethod(doc["methods"][i])]
               ELSE <<>>,
   ManualOps |-> DecodeOperations(doc["operations"]),
   OverrideOps |-> DecodeOperations(doc["operation_overrides"]),
   OpenapiOps |-> DecodeOperations(doc["openapi_operations"]),
   GitCommit |-> doc["openapi_commit"],
   resolvedOps |-> [isNil |-> TRUE, ops |-> EmptyMap]]

\* No file written yet.
NoFile == [written |-> FALSE, doc |-> <<>>]

\* (m *Metadata).SaveFile(filename): the outcomes of the sorts and the file
\* each leaves.  The layers, the methods and their operation names are
\* sorted in place; the resolved map is not touched.
SaveFile(m, commit) ==
  {[m |-> sorted, file |-> [written |-> TRUE, doc |-> Encode(sorted, commit)]] :
     sorted \in
       {[m EXCEPT !.ManualOps = manual, !.OverrideOps = override, !.OpenapiOps = openapi,
                  !.Methods = [i \in 1..Len(methods) |->
                                 [methods[i] EXCEPT !.OpNames = SortStrings(@)]]] :
          manual \in SortedSlices(m.ManualOps, opLessIn(m.ManualOps)),
          override \in SortedSlices(m.OverrideOps, opLessIn(m.OverrideOps)),
          openapi \in SortedSlices(m.OpenapiOps, opLessIn(m.OpenapiOps)),
          methods \in SortedSlices(m.Methods, methodLessIn(m.Methods))}}

\* LoadMetadataFile(filename) of a file SaveFile wrote.
LoadMetadataFile(file) == Decode(file.doc)

VARIABLES
  Methods,          \* Metadata.Methods: sequence of [Name, OpNames]
  ManualOps,        \* Metadata.ManualOps
  OverrideOps,      \* Metadata.OverrideOps
  OpenapiOps,       \* Metadata.OpenapiOps
  resolvedOps,      \* Metadata.resolvedOps: [isNil, ops]
  normalizedURLs,   \* the package-level cache of normalizedURL
  serviceMethods,   \* what getServiceMethods finds in the github package
  issues,           \* the list the last ValidateMetadata returned
  canonErr,         \* the error the last CanonizeMethodOperations returned
  last,             \* the last call: "load", "validate" or "canonize"
  pre,              \* the document as it was when the last call started
  canonized,        \* the last CanonizeMethodOperations, if any, returned nil
  rewritten,        \* the methods an entry of which a successful canonize rewrote
  endpoints,        \* the endpointsMap: full name -> Endpoint
  helperErr,        \* the error the last resolveHelpers returned
  helpersLast,      \* "extract" or "resolve": the last step on the endpoints
  endpointsPre,     \* the endpoints as they were when the last resolveHelpers started
  visitOrder,       \* the order in which the last resolveHelpers ranged over the map
  body,             \* the BlockStmt of the method declaration under analysis
  bd,               \* the bodyData parseBody filled in
  bodyErr,          \* the error parseBody returned
  analyzed,         \* the plain statements parseBody went through, in order
  bodyLast,         \* "declared" or "parsed": the last step on the body
  GitCommit,        \* Metadata.GitCommit
  file,             \* the metadata file on disk: NoFile or what SaveFile wrote
  original,         \* the document as it was first loaded
  saves,            \* the number of SaveFile calls so far
  normalizeArg,     \* the argument of the last normalizedURL call
  normalizeResult,  \* what the last normalizedURL call returned
  firstResults,     \* argument -> what the first normalizedURL call on it returned
  repeated,         \* the last normalizedURL call was not the first on its argument
  normalizeCalls,   \* the number of normalizedURL calls so far
  mu,               \* Metadata.mu: 0 when free, else the goroutine holding it
  pc,               \* goroutine -> where it is in its call
  call,             \* goroutine -> the call it is making: [kind, name]
  idx,              \* the index of the loop of resolve that is running
  seen,             \* goroutine -> the m.resolvedOps its last call read
  ret,              \* goroutine -> what its last call returned
  merges,           \* the number of times the merge of resolve started
  normalizedURLsMu, \* the lock of the cache: 0 when free, else the goroutine holding it
  urlPc,            \* goroutine -> where it is in its normalizedURL call
  urlArg,           \* goroutine -> the argument u of its call
  urlN,             \* goroutine -> the local n of its call
  urlRet,           \* goroutine -> [done, value]: what its last call returned
  dir,              \* the entries GetContents lists under "descriptions"
  fetchStage,       \* "start", "fetching" or "returned": where GetDescriptions is
  files,            \* the []*OpenapiFile of GetDescriptions, after the sort
  fetchPc,          \* index of a file -> where the goroutine loading it is
  ctxCancelled,     \* the context of the errgroup is cancelled
  groupErr,         \* the error the errgroup keeps
  failures,         \* the indexes of the files whose load failed, in order of failure
  fetchResult,      \* what GetDescriptions returned: [files, err]
  opList,           \* the ops []*Operation the addOperation calls build
  addCalls,         \* the addOperation calls made so far: [filename, opName, docURL]
  head,             \* the remote repository: the commit its branch points at
  refreshErr,       \* the error the last UpdateFromGithub returned
  preCommit,        \* Metadata.GitCommit as it was when the last call started
  lookup,           \* what the last lookup returned: [kind, arg, ops]
  commitMsg         \* what the last ValidateGitCommit returned: [msg, commit]

helperVars == <<endpoints, helperErr, helpersLast, endpointsPre, visitOrder>>

metadataVars == <<Methods, ManualOps, OverrideOps, OpenapiOps, resolvedOps, normalizedURLs,
                  serviceMethods, issues, canonErr, last, pre, canonized, rewritten>>

bodyVars == <<body, bd, bodyErr, analyzed, bodyLast>>

fileVars == <<GitCommit, file, original, saves>>

normalizeVars == <<normalizeArg, normalizeResult, firstResults, repeated, normalizeCalls>>

resolveVars == <<mu, pc, call, idx, seen, ret, merges>>

cacheVars == <<normalizedURLsMu, urlPc, urlArg, urlN, urlRet>>

fetchVars == <<dir, fetchStage, files, fetchPc, ctxCancelled, groupErr, failures,
               fetchResult>>

addVars == <<opList, addCalls>>

refreshVars == <<head, refreshErr, preCommit, lookup, commitMsg>>

laterVars == <<addVars, refreshVars>>

extraVars == <<cacheVars, fetchVars, laterVars>>

vars == <<metadataVars, helperVars, bodyVars, fileVars, normalizeVars, resolveVars, extraVars>>

meta ==
  [Methods |-> Methods, ManualOps |-> ManualOps, OverrideOps |-> OverrideOps,
   OpenapiOps |-> OpenapiOps, resolvedOps |-> resolvedOps]

Snapshot ==
  [Methods |-> Methods, ManualOps |-> ManualOps, OverrideOps |-> OverrideOps,
   OpenapiOps |-> OpenapiOps, resolvedOps |-> resolvedOps, canonized |-> canonized]

\* The state LoadMetadataFile leaves: the decoded document, nothing resolved.
Loaded ==
  /\ resolvedOps = [isNil |-> TRUE, ops |-> EmptyMap]
  /\ normalizedURLs = EmptyMap
  /\ issues = <<>>
  /\ canonErr = NoError
  /\ last = "load"
  /\ canonized = FALSE
  /\ rewritten = {}
  /\ pre = Snapshot

\* No method body under analysis.
NoBody ==
  /\ body = BlockStmt(<<>>)
  /\ bd = bodyData("s")
  /\ bodyErr = NoBodyError
  /\ analyzed = <<>>
  /\ bodyLast = "declared"

\* No endpoint extracted from the github package.
NoEndpoints ==
  /\ endpoints = EmptyMap
  /\ helperErr = NoHelperError
  /\ helpersLast = "extract"
  /\ endpointsPre = EmptyMap
  /\ visitOrder = <<>>

NothingExtracted == NoEndpoints /\ NoBody

\* The goroutines that call into one Metadata.
Procs == 1..MaxProcs

NoCall == [kind |-> "", name |-> <<>>]

\* Nothing read yet: no map, no result.
NotSeen == [read |-> FALSE, map |-> [isNil |-> TRUE, ops |-> EmptyMap]]

NoResult == <<>>

\* No goroutine in a call, the lock free.
NothingCalled ==
  /\ mu = 0
  /\ pc = [p \in Procs |-> "idle"]
  /\ call = [p \in Procs |-> NoCall]
  /\ idx = 0
  /\ seen = [p \in Procs |-> NotSeen]
  /\ ret = [p \in Procs |-> NoResult]
  /\ merges = 0

NotReturned == [done |-> FALSE, value |-> <<>>]

\* No goroutine in normalizedURL, the lock of the cache free.
NoCacheCall ==
  /\ normalizedURLsMu = 0
  /\ urlPc = [p \in Procs |-> "idle"]
  /\ urlArg = [p \in Procs |-> <<>>]
  /\ urlN = [p \in Procs |-> <<>>]
  /\ urlRet = [p \in Procs |-> NotReturned]

NoFetchError == [msg |-> "", file |-> ""]

\* GetDescriptions not called.
NoFetch ==
  /\ dir = <<>>
  /\ fetchStage = "start"
  /\ files = <<>>
  /\ fetchPc = <<>>
  /\ ctxCancelled = FALSE
  /\ groupErr = NoFetchError
  /\ failures = <<>>
  /\ fetchResult = [files |-> <<>>, err |-> NoFetchError]

\* No addOperation call made.
NoAdd ==
  /\ opList = <<>>
  /\ addCalls = <<>>

FirstCommit == "c1"

NoLookup == [kind |-> "", arg |-> <<>>, ops |-> <<>>]

NotValidated == [msg |-> "", commit |-> ""]

\* No call that reaches the remote repository made.
NoRefresh ==
  /\ head = FirstCommit
  /\ refreshErr = ""
  /\ preCommit = ""
  /\ lookup = NoLookup
  /\ commitMsg = NotValidated

NothingFurther == NoCacheCall /\ NoFetch /\ NoAdd /\ NoRefresh

\* No call of normalizedURL made on its own.
NothingNormalized ==
  /\ normalizeArg = <<>>
  /\ normalizeResult = <<>>
  /\ firstResults = EmptyMap
  /\ repeated = FALSE
  /\ normalizeCalls = 0

\* No file saved, and no document kept for comparison.
NothingSaved ==
  /\ GitCommit = ""
  /\ file = NoFile
  /\ original = <<>>
  /\ saves = 0

\* No metadata document loaded.
NoDocument ==
  /\ Methods = <<>>
  /\ OpenapiOps = <<>>
  /\ ManualOps = <<>>
  /\ OverrideOps = <<>>
  /\ serviceMethods = <<>>
  /\ Loaded
  /\ NothingSaved
  /\ NothingNormalized
  /\ NothingCalled
  /\ NothingFurther

MethodEntries(names, opNames) ==
  {[Name |-> n, OpNames |-> o] : n \in names, o \in SeqsUpTo(opNames, MaxOpNames)}

\* Documents that vary the method mapping over a few resolved views.
Init ==
  /\ Methods \in SeqsUpTo(MethodEntries({MethodGet, MethodList}, {NameAx, NameAz, NameB}),
                          MaxMethods)
  /\ OpenapiOps \in {<<OpenapiEntry(NameAx)>>, <<OpenapiEntry(NamePx)>>}
  /\ ManualOps \in SubSeqs(<<ManualEntry(NameAy)>>)
  /\ OverrideOps = <<>>
  /\ serviceMethods \in {<<MethodGet>>, <<MethodGet, MethodMissing>>}
  /\ Loaded
  /\ NothingSaved
  /\ NothingNormalized
  /\ NothingCalled
  /\ NothingFurther
  /\ NothingExtracted

\* Documents that vary the three layers under a one-method mapping.
InitLayers ==
  /\ Methods \in {<<[Name |-> MethodGet, OpNames |-> <<n>>]>> : n \in {NameAx, NameAz}}
  /\ OpenapiOps \in SeqsUpTo({OpenapiEntry(n) : n \in {NameAx, NameB}}, MaxOps)
  /\ ManualOps \in SeqsUpTo({ManualEntry(n) : n \in {NameAx, NameB}}, MaxOps)
  /\ OverrideOps \in SeqsUpTo(OverrideEntries({NameAx, NameB}), MaxOps)
  /\ serviceMethods = <<MethodGet>>
  /\ Loaded
  /\ NothingSaved
  /\ NothingNormalized
  /\ NothingCalled
  /\ NothingFurther
  /\ NothingExtracted

\* A call of ValidateMetadata(dir, meta).
Validate ==
  LET v == ValidateMetadata(meta, normalizedURLs, serviceMethods)
  IN  /\ Methods' = v.m.Methods
      /\ ManualOps' = v.m.ManualOps
      /\ OverrideOps' = v.m.OverrideOps
      /\ OpenapiOps' = v.m.OpenapiOps
      /\ resolvedOps' = v.m.resolvedOps
      /\ normalizedURLs' = v.cache
      /\ issues' = v.result
      /\ last' = "validate"
      /\ pre' = Snapshot
      /\ UNCHANGED <<serviceMethods, canonErr, canonized, rewritten>>
      /\ UNCHANGED <<helperVars, bodyVars, fileVars, normalizeVars, resolveVars, extraVars>>

\* A call of meta.CanonizeMethodOperations().
Canonize ==
  LET c == CanonizeMethodOperations(meta, normalizedURLs)
  IN  /\ Methods' = c.m.Methods
      /\ ManualOps' = c.m.ManualOps
      /\ OverrideOps' = c.m.OverrideOps
      /\ OpenapiOps' = c.m.OpenapiOps
      /\ resolvedOps' = c.m.resolvedOps
      /\ normalizedURLs' = c.cache
      /\ canonErr' = c.err
      /\ canonized' = (c.err = NoError)
      /\ rewritten' = IF c.err = NoError
                      THEN rewritten \cup {Methods[i].Name : i \in {j \in 1..Len(Methods) :
                                                 c.m.Methods[j] # Methods[j]}}
                      ELSE rewritten
      /\ last' = "canonize"
      /\ pre' = Snapshot
      /\ UNCHANGED <<serviceMethods, issues>>
      /\ UNCHANGED <<helperVars, bodyVars, fileVars, normalizeVars, resolveVars, extraVars>>

Next == Validate \/ Canonize

Spec == Init /\ [][Next]_vars

\* Documents with faults on every side: in the inventory, in the mapping and
\* in the layers.
InitScan ==
  /\ Methods \in SeqsUpTo(MethodEntries({MethodGet, MethodList}, {NameAx, NameAz}),
                          MaxMethods)
  /\ OpenapiOps \in SeqsUpTo({OpenapiEntry(NameAx)}, MaxOps)
  /\ ManualOps \in SubSeqs(<<ManualEntry(NameAx)>>)
  /\ OverrideOps \in SubSeqs(<<Operation(NameAz, "docs/override", <<>>)>>)
  /\ serviceMethods \in {<<MethodGet>>, <<MethodDelete, MethodGet, MethodMissing>>,
                         <<MethodList, MethodMissing>>}
  /\ Loaded
  /\ NothingSaved
  /\ NothingNormalized
  /\ NothingCalled
  /\ NothingFurther
  /\ NothingExtracted

SpecLayers == InitLayers /\ [][Next]_vars

\* Documents whose openapi layer has "G /a/{x}" alone or with "G /b", so
\* that a method of two entries can be canonized as a whole.
InitCanonize ==
  /\ Methods \in SeqsUpTo(MethodEntries({MethodGet, MethodList}, {NameAx, NameAz, NameB}),
                          MaxMethods)
  /\ OpenapiOps \in {<<OpenapiEntry(NameAx)>>, <<OpenapiEntry(NameAx), OpenapiEntry(NameB)>>}
  /\ ManualOps \in SubSeqs(<<ManualEntry(NameAy)>>)
  /\ OverrideOps = <<>>
  /\ serviceMethods = <<MethodGet>>
  /\ Loaded
  /\ NothingSaved
  /\ NothingNormalized
  /\ NothingCalled
  /\ NothingFurther
  /\ NothingExtracted

SpecCanonize == InitCanonize /\ [][Next]_vars

SpecScan == InitScan /\ [][Next]_vars

\* The names of the extracted methods, the first MaxEndpoints of which the
\* inventories draw on.
EndpointNames == <<"a", "b", "c", "d">>

\* What body analysis can have found of an endpoint: a verb or none, a helper
\* reference or none.
Findings(helperNames) ==
  [httpMethod : {"", "GET", "POST"}, helperMethod : {""} \cup helperNames]

\* The inventories findAllServiceEndpoints can leave: every endpoint under
\* its full name.  Service S has up to MaxEndpoints methods; service T has at
\* most a method b of its own, with a verb.
Inventories ==
  LET names == {EndpointNames[i] : i \in 1..MaxEndpoints}
      keys == {FullName("S", n) : n \in names} \cup {FullName("T", "b")}
  IN  UNION {{[k \in K |-> Endpoint(k[1], k[2], found[k].httpMethod,
                                    found[k].helperMethod, <<"u/%v">>)] :
                found \in {f \in [K -> Findings(names \ {"a"})] :
                             FullName("T", "b") \in K
                               => f[FullName("T", "b")]
                                    = [httpMethod |-> "POST", helperMethod |-> ""]}} :
             K \in SUBSET keys}

InitHelpers ==
  /\ NoDocument
  /\ NoBody
  /\ endpoints \in Inventories
  /\ helperErr = NoHelperError
  /\ helpersLast = "extract"
  /\ endpointsPre = endpoints
  /\ visitOrder = <<>>

\* A call of resolveHelpers(endpoints).
ResolveHelpers ==
  \E order \in IterationOrders(DOMAIN endpoints) :
    LET r == resolveHelpers(endpoints, order)
    IN  /\ endpoints' = r.endpoints
        /\ helperErr' = r.err
        /\ helpersLast' = "resolve"
        /\ endpointsPre' = endpoints
        /\ visitOrder' = order
        /\ UNCHANGED <<metadataVars, bodyVars, fileVars, normalizeVars, resolveVars, extraVars>>

NextHelpers == ResolveHelpers

SpecHelpers == InitHelpers /\ [][NextHelpers]_vars

\* Source text of the bodies: identifiers, two verbs and three literals, the
\* last a query string.
IdentU == <<"u">>
IdentV == <<"v">>
IdentX == <<"x">>
IdentCtx == <<"c", "t", "x">>
IdentReq == <<"r", "e", "q">>
IdentErr == <<"e", "r", "r">>
IdentNil == <<"n", "i", "l">>
IdentOpts == <<"o", "p", "t", "s">>
StringLit(text) == <<Quote>> \o text \o <<Quote>>
TextGET == <<"G", "E", "T">>
TextPOST == <<"P", "O", "S", "T">>
TextA == <<"a">>
TextB == <<"b", "/", "%", "v">>
TextC == <<"c">>
TextQuery == <<"?", "q">>

\* u := "a"  and  v := "c"  and  u := "?q"
BindLiteral(name, text) == AssignStmt(<<name>>, <<BasicLit(StringLit(text))>>)
\* u = fmt.Sprintf("b/%v", x)
BindSprintf(name, text) ==
  AssignStmt(<<name>>, <<CallExpr("fmt", "Sprintf", <<StringLit(text), IdentX>>)>>)
\* req, err := s.client.NewRequest("GET", u, nil)
Request(verb, name) ==
  AssignStmt(<<IdentReq, IdentErr>>,
             <<CallExpr("client", "NewRequest", <<StringLit(verb), name, IdentNil>>)>>)
\* u, err := addOptions(u, opts)
AddOptions(name) ==
  AssignStmt(<<name, IdentErr>>, <<CallExpr("", "addOptions", <<name, IdentOpts>>)>>)
\* return s.get(ctx, u)
ReturnHelper(funcName, name) ==
  ReturnStmt(<<CallExpr("s", funcName, <<IdentCtx, name>>)>>)

PlainStatements ==
  {BindLiteral(IdentU, TextA), BindSprintf(IdentU, TextB), BindLiteral(IdentV, TextC),
   BindLiteral(IdentU, TextQuery), Request(TextGET, IdentU), Request(TextPOST, IdentU),
   AddOptions(IdentU), ReturnHelper("get", IdentU), PassedOver("DeclStmt"),
   PassedOver("ForStmt")}

IfStatements ==
  {IfStmt(<<first>>, else) :
     first \in {BindLiteral(IdentU, TextA), Request(TextGET, IdentU)},
     else \in {NoElse, BlockStmt(<<BindSprintf(IdentU, TextB)>>),
               BlockStmt(<<Request(TextPOST, IdentU)>>),
               IfStmt(<<Request(TextPOST, IdentU)>>, NoElse)}}

\* The bodies: up to MaxStmts statements.
Bodies == {BlockStmt(list) : list \in SeqsUpTo(PlainStatements \cup IfStatements, MaxStmts)}

InitBody ==
  /\ NoDocument
  /\ NoEndpoints
  /\ body \in Bodies
  /\ bd = bodyData("s")
  /\ bodyErr = NoBodyError
  /\ analyzed = <<>>
  /\ bodyLast = "declared"

\* bd := &bodyData{receiverName: ...}; err := bd.parseBody(decl.Body)
ParseBody ==
  LET r == parseBody(bodyData("s"), body)
  IN  /\ bd' = r.b
      /\ bodyErr' = r.err
      /\ analyzed' = r.analyzed
      /\ bodyLast' = "parsed"
      /\ UNCHANGED <<body, metadataVars, helperVars, fileVars, normalizeVars, resolveVars, extraVars>>

NextBody == ParseBody

SpecBody == InitBody /\ [][NextBody]_vars

\* Bodies with one conditional: a binding or none before it, an if with an
\* else, an else-if or an else-if with its own else, each branch one binding
\* of u or one request, and a request, an addOptions call or nothing after it.
BranchStatements ==
  {BindLiteral(IdentU, TextA), BindSprintf(IdentU, TextB), BindLiteral(IdentU, TextC),
   Request(TextGET, IdentU)}

Conditionals ==
  {IfStmt(<<first>>, else) :
     first \in BranchStatements,
     else \in {NoElse}
              \cup {BlockStmt(<<second>>) : second \in BranchStatements}
              \cup {IfStmt(<<second>>, NoElse) : second \in BranchStatements}
              \cup {IfStmt(<<second>>, BlockStmt(<<third>>)) :
                      second \in BranchStatements, third \in BranchStatements}}

BranchBodies ==
  {BlockStmt(before \o <<cond>> \o after) :
     before \in {<<>>, <<BindLiteral(IdentU, TextA)>>, <<BindLiteral(IdentV, TextC)>>},
     cond \in Conditionals,
     after \in {<<>>, <<Request(TextGET, IdentU)>>, <<Request(TextPOST, IdentU)>>,
                <<AddOptions(IdentU), Request(TextGET, IdentU)>>}}

InitBranches ==
  /\ NoDocument
  /\ NoEndpoints
  /\ body \in BranchBodies
  /\ bd = bodyData("s")
  /\ bodyErr = NoBodyError
  /\ analyzed = <<>>
  /\ bodyLast = "declared"

SpecBranches == InitBranches /\ [][NextBody]_vars

\* resp, err := s.search(ctx, "a", ...)
IdentResp == <<"r", "e", "s", "p">>
Search(arg) ==
  AssignStmt(<<IdentResp, IdentErr>>,
             <<CallExpr("s", "search", <<IdentCtx, StringLit(arg), IdentOpts>>)>>)

\* Bodies with a call of s.search: bindings, addOptions calls and requests
\* before it, a binding or nothing after it.
SearchBodies ==
  {BlockStmt(before \o <<Search(arg)>> \o after) :
     before \in SeqsUpTo({BindLiteral(IdentU, TextA), BindLiteral(IdentV, TextC),
                          BindSprintf(IdentU, TextB), AddOptions(IdentU),
                          Request(TextGET, IdentU), Request(TextPOST, IdentU)},
                         MaxStmts - 1),
     arg \in {TextA, TextC},
     after \in {<<>>, <<BindLiteral(IdentU, TextA)>>}}

InitSearch ==
  /\ NoDocument
  /\ NoEndpoints
  /\ body \in SearchBodies
  /\ bd = bodyData("s")
  /\ bodyErr = NoBodyError
  /\ analyzed = <<>>
  /\ bodyLast = "declared"

SpecSearch == InitSearch /\ [][NextBody]_vars

\* The entries of the documents that are saved: two openapi entries, two
\* manual entries and two overrides of the same name with different contents,
\* and entries of other names.
SavedOpenapi ==
  {OpenapiEntry(NameAx), Operation(NameAx, "docs/other", <<"descriptions/api.json">>),
   OpenapiEntry(NameB), OpenapiEntry(NamePx)}

SavedManual ==
  {ManualEntry(NameAx), Operation(NameAx, "docs/manual2", <<>>), ManualEntry(NameB)}

SavedOverrides ==
  {Operation(NameAx, "docs/override", <<>>), Operation(NameAx, "docs/override2", <<>>),
   Operation(NameB, "", <<"descriptions/override.json">>)}

Document(methods, manual, override, openapi) ==
  [Methods |-> methods, ManualOps |-> manual, OverrideOps |-> override,
   OpenapiOps |-> openapi]

\* The documents: each varies one part, in every order, over small other parts.
Documents ==
  {Document(<<>>, manual, <<>>, openapi) :
     manual \in SubSeqs(<<ManualEntry(NameAx)>>), openapi \in SeqsUpTo(SavedOpenapi, MaxOps)}
    \cup {Document(<<>>, manual, <<>>, <<OpenapiEntry(NameB), OpenapiEntry(NameAx)>>) :
            manual \in SeqsUpTo(SavedManual, MaxOps)}
    \cup {Document(<<>>, <<>>, override, openapi) :
            override \in SeqsUpTo(SavedOverrides, MaxOps),
            openapi \in {<<>>, <<OpenapiEntry(NameAx)>>}}
    \cup {Document(methods, <<>>, <<>>, <<OpenapiEntry(NameB), OpenapiEntry(NameAx)>>) :
            methods \in SeqsUpTo(MethodEntries({MethodGet, MethodList}, {NameAx, NameB}),
                                 MaxMethods)}

InitSave ==
  /\ \E d \in Documents :
       /\ Methods = d.Methods
       /\ ManualOps = d.ManualOps
       /\ OverrideOps = d.OverrideOps
       /\ OpenapiOps = d.OpenapiOps
       /\ original = d
  /\ GitCommit = "c0ffee"
  /\ file = NoFile
  /\ saves = 0
  /\ serviceMethods = <<>>
  /\ Loaded
  /\ NothingExtracted
  /\ NothingNormalized
  /\ NothingCalled
  /\ NothingFurther

\* A call of meta.SaveFile(filename).
Save ==
  /\ saves < MaxSaves
  /\ \E r \in SaveFile(meta, GitCommit) :
       /\ Methods' = r.m.Methods
       /\ ManualOps' = r.m.ManualOps
       /\ OverrideOps' = r.m.OverrideOps
       /\ OpenapiOps' = r.m.OpenapiOps
       /\ file' = r.file
  /\ saves' = saves + 1
  /\ last' = "save"
  /\ pre' = Snapshot
  /\ UNCHANGED <<resolvedOps, normalizedURLs, serviceMethods, issues, canonErr, canonized,
                 rewritten, GitCommit, original>>
  /\ UNCHANGED <<helperVars, bodyVars, normalizeVars, resolveVars, extraVars>>

\* meta, err := LoadMetadataFile(filename), of the file the last SaveFile wrote.
Load ==
  /\ file.written
  /\ LET m == LoadMetadataFile(file)
     IN  /\ Methods' = m.Methods
         /\ ManualOps' = m.ManualOps
         /\ OverrideOps' = m.OverrideOps
         /\ OpenapiOps' = m.OpenapiOps
         /\ GitCommit' = m.GitCommit
         /\ resolvedOps' = m.resolvedOps
  /\ last' = "load"
  /\ pre' = Snapshot
  /\ UNCHANGED <<normalizedURLs, serviceMethods, issues, canonErr, canonized, rewritten,
                 file, original, saves>>
  /\ UNCHANGED <<helperVars, bodyVars, normalizeVars, resolveVars, extraVars>>

NextSave == Save \/ Load

SpecSave == InitSave /\ [][NextSave]_vars

\* The URL templates normalizedURL is called on: the texts of up to MaxLen
\* characters over a separator, a letter and an opening brace.
URLChars == {"/", "a", "{"}

URLTemplates == SeqsUpTo(URLChars, MaxLen)

InitNormalize ==
  /\ NoDocument
  /\ NothingExtracted

\* A call of normalizedURL(u), under normalizedURLsMu from start to end: on a
\* raw template, or on what the last call returned.
NormalizedURL ==
  /\ normalizeCalls < MaxCalls
  /\ \E u \in URLTemplates \cup {normalizeResult} :
       LET n == normalizedURL(normalizedURLs, u)
       IN  /\ normalizedURLs' = Put(normalizedURLs, u, n)
           /\ normalizeArg' = u
           /\ normalizeResult' = n
           /\ repeated' = (u \in DOMAIN firstResults)
           /\ firstResults' = IF u \in DOMAIN firstResults THEN firstResults
                               ELSE Put(firstResults, u, n)
  /\ normalizeCalls' = normalizeCalls + 1
  /\ UNCHANGED <<Methods, ManualOps, OverrideOps, OpenapiOps, resolvedOps, serviceMethods,
                 issues, canonErr, last, pre, canonized, rewritten>>
  /\ UNCHANGED <<helperVars, bodyVars, fileVars, resolveVars, extraVars>>

NextNormalize == NormalizedURL

SpecNormalize == InitNormalize /\ [][NextNormalize]_vars

\* The documents the goroutines resolve: every layer takes part in the merge.
InitResolve ==
  /\ Methods = <<>>
  /\ OpenapiOps \in {<<OpenapiEntry(NameAx)>>, <<OpenapiEntry(NameAx), OpenapiEntry(NameB)>>}
  /\ ManualOps \in SubSeqs(<<ManualEntry(NameAy)>>)
  /\ OverrideOps \in SubSeqs(<<Operation(NameAx, "docs/override", <<>>)>>)
  /\ serviceMethods = <<>>
  /\ Loaded
  /\ NothingSaved
  /\ NothingNormalized
  /\ NothingCalled
  /\ NothingFurther
  /\ NothingExtracted

CallKinds == {"getOperation", "Operations", "getOperationsWithNormalizedName"}

\* Goroutine p enters getOperation(name), Operations() or
\* getOperationsWithNormalizedName(name): each starts with m.resolve().
Call(p) ==
  /\ pc[p] = "idle"
  /\ \E kind \in CallKinds, name \in {NameAx, NameAz} :
       call' = [call EXCEPT ![p] = [kind |-> kind, name |-> name]]
  /\ pc' = [pc EXCEPT ![p] = "lock"]
  /\ UNCHANGED <<mu, idx, seen, ret, merges>>
  /\ UNCHANGED <<metadataVars, helperVars, bodyVars, fileVars, normalizeVars, extraVars>>

\* The lock taken with no regard for who holds it.
LockUnguarded(p) ==
  /\ pc[p] = "lock"
  /\ mu' = p
  /\ pc' = [pc EXCEPT ![p] = "check"]
  /\ UNCHANGED <<call, idx, seen, ret, merges>>
  /\ UNCHANGED <<metadataVars, helperVars, bodyVars, fileVars, normalizeVars, extraVars>>

\* m.mu.Lock()
Lock(p) ==
  /\ pc[p] = "lock"
  /\ mu = 0
  /\ mu' = p
  /\ pc' = [pc EXCEPT ![p] = "check"]
  /\ UNCHANGED <<call, idx, seen, ret, merges>>
  /\ UNCHANGED <<metadataVars, helperVars, bodyVars, fileVars, normalizeVars, extraVars>>

\* if m.resolvedOps != nil { return }; m.resolvedOps = map[string]*Operation{}
CheckResolved(p) ==
  /\ pc[p] = "check"
  /\ IF ~resolvedOps.isNil
     THEN /\ pc' = [pc EXCEPT ![p] = "unlock"]
          /\ UNCHANGED <<resolvedOps, idx, merges>>
     ELSE /\ resolvedOps' = [isNil |-> FALSE, ops |-> EmptyMap]
          /\ idx' = 1
          /\ merges' = merges + 1
          /\ pc' = [pc EXCEPT ![p] = "openapi"]
  /\ UNCHANGED <<mu, call, seen, ret>>
  /\ UNCHANGED <<Methods, ManualOps, OverrideOps, OpenapiOps, normalizedURLs, serviceMethods,
                 issues, canonErr, last, pre, canonized, rewritten>>
  /\ UNCHANGED <<helperVars, bodyVars, fileVars, normalizeVars, extraVars>>

\* One iteration of a seeding loop of resolve over `layer`, or its end.
Seed(p, layer, at, next) ==
  /\ pc[p] = at
  /\ IF idx > Len(meta[layer])
     THEN /\ pc' = [pc EXCEPT ![p] = next]
          /\ idx' = 1
          /\ UNCHANGED resolvedOps
     ELSE /\ resolvedOps' = SeedFrom([meta EXCEPT ![layer] = SubSeq(@, 1, idx)],
                                     layer, idx).resolvedOps
          /\ idx' = idx + 1
          /\ UNCHANGED pc
  /\ UNCHANGED <<mu, call, seen, ret, merges>>
  /\ UNCHANGED <<Methods, ManualOps, OverrideOps, OpenapiOps, normalizedURLs, serviceMethods,
                 issues, canonErr, last, pre, canonized, rewritten>>
  /\ UNCHANGED <<helperVars, bodyVars, fileVars, normalizeVars, extraVars>>

\* for _, op := range m.OpenapiOps { m.resolvedOps[op.Name] = op.clone() }
SeedOpenapi(p) == Seed(p, "OpenapiOps", "openapi", "manual")

\* for _, op := range m.ManualOps { m.resolvedOps[op.Name] = op.clone() }
SeedManual(p) == Seed(p, "ManualOps", "manual", "override")

\* One iteration of the loop over m.OverrideOps, or its end.
Override(p) ==
  /\ pc[p] = "override"
  /\ IF idx > Len(OverrideOps)
     THEN /\ pc' = [pc EXCEPT ![p] = "unlock"]
          /\ idx' = 0
          /\ UNCHANGED <<ManualOps, OverrideOps, OpenapiOps, resolvedOps>>
     ELSE LET m == ApplyOverride(meta, idx)
          IN  /\ ManualOps' = m.ManualOps
              /\ OverrideOps' = m.OverrideOps
              /\ OpenapiOps' = m.OpenapiOps
              /\ resolvedOps' = m.resolvedOps
              /\ idx' = idx + 1
              /\ UNCHANGED pc
  /\ UNCHANGED <<mu, call, seen, ret, merges>>
  /\ UNCHANGED <<Methods, normalizedURLs, serviceMethods, issues, canonErr, last, pre,
                 canonized, rewritten>>
  /\ UNCHANGED <<helperVars, bodyVars, fileVars, normalizeVars, extraVars>>

\* The deferred m.mu.Unlock() as resolve returns.
Unlock(p) ==
  /\ pc[p] = "unlock"
  /\ mu' = 0
  /\ pc' = [pc EXCEPT ![p] = "read"]
  /\ UNCHANGED <<call, idx, seen, ret, merges>>
  /\ UNCHANGED <<metadataVars, helperVars, bodyVars, fileVars, normalizeVars, extraVars>>

\* What the call reads from m.resolvedOps after resolve returned, without the
\* lock, and returns.  A nil map reads as an empty one.
Return(p) ==
  LET m == IF resolvedOps.isNil
           THEN [meta EXCEPT !.resolvedOps = [isNil |-> FALSE, ops |-> EmptyMap]]
           ELSE meta
      ops == m.resolvedOps.ops
  IN
  /\ pc[p] = "read"
  /\ seen' = [seen EXCEPT ![p] = [read |-> TRUE, map |-> resolvedOps]]
  /\ ret' = [ret EXCEPT ![p] =
       CASE call[p].kind = "getOperation" ->
              IF call[p].name \in DOMAIN ops THEN <<ops[call[p].name]>> ELSE <<>>
         [] call[p].kind = "Operations" ->
              sortOperations({ops[n] : n \in DOMAIN ops})
         [] OTHER ->
              getOperationsWithNormalizedName(m, normalizedURLs, call[p].name)]
  /\ normalizedURLs' =
       IF call[p].kind = "getOperationsWithNormalizedName"
       THEN CacheAfter(m, normalizedURLs, {call[p].name})
       ELSE normalizedURLs
  /\ pc' = [pc EXCEPT ![p] = "idle"]
  /\ UNCHANGED <<mu, call, idx, merges>>
  /\ UNCHANGED <<Methods, ManualOps, OverrideOps, OpenapiOps, resolvedOps, serviceMethods,
                 issues, canonErr, last, pre, canonized, rewritten>>
  /\ UNCHANGED <<helperVars, bodyVars, fileVars, normalizeVars, extraVars>>

NextResolve ==
  \E p \in Procs :
    \/ Call(p)
    \/ Lock(p)
    \/ CheckResolved(p)
    \/ SeedOpenapi(p)
    \/ SeedManual(p)
    \/ Override(p)
    \/ Unlock(p)
    \/ Return(p)

SpecResolve == InitResolve /\ [][NextResolve]_vars

\* The templates the goroutines normalize at the same time.
SharedTemplates == {<<"{">>, <<"a", "/", "{">>, <<"a">>}

InitCache ==
  /\ NoDocument
  /\ NothingExtracted

\* Goroutine p calls normalizedURL(u).
UrlCall(p) ==
  /\ urlPc[p] = "idle"
  /\ \E u \in SharedTemplates : urlArg' = [urlArg EXCEPT ![p] = u]
  /\ urlN' = [urlN EXCEPT ![p] = <<>>]
  /\ urlRet' = [urlRet EXCEPT ![p] = NotReturned]
  /\ urlPc' = [urlPc EXCEPT ![p] = "lock"]
  /\ UNCHANGED <<normalizedURLsMu, metadataVars, helperVars, bodyVars, fileVars,
                 normalizeVars, resolveVars, fetchVars, laterVars>>

\* The lock of the cache taken with no regard for who holds it.
UrlLockUnguarded(p) ==
  /\ urlPc[p] = "lock"
  /\ normalizedURLsMu' = p
  /\ urlPc' = [urlPc EXCEPT ![p] = "lookup"]
  /\ UNCHANGED <<urlArg, urlN, urlRet, metadataVars, helperVars, bodyVars, fileVars,
                 normalizeVars, resolveVars, fetchVars, laterVars>>

\* normalizedURLsMu.Lock()
UrlLock(p) ==
  /\ urlPc[p] = "lock"
  /\ normalizedURLsMu = 0
  /\ normalizedURLsMu' = p
  /\ urlPc' = [urlPc EXCEPT ![p] = "lookup"]
  /\ UNCHANGED <<urlArg, urlN, urlRet, metadataVars, helperVars, bodyVars, fileVars,
                 normalizeVars, resolveVars, fetchVars, laterVars>>

\* n, ok := normalizedURLs[u]; if ok { return n }
UrlLookup(p) ==
  /\ urlPc[p] = "lookup"
  /\ IF urlArg[p] \in DOMAIN normalizedURLs
     THEN /\ urlN' = [urlN EXCEPT ![p] = normalizedURLs[urlArg[p]]]
          /\ urlPc' = [urlPc EXCEPT ![p] = "unlock"]
     ELSE /\ urlN' = urlN
          /\ urlPc' = [urlPc EXCEPT ![p] = "compute"]
  /\ UNCHANGED <<normalizedURLsMu, urlArg, urlRet, metadataVars, helperVars, bodyVars,
                 fileVars, normalizeVars, resolveVars, fetchVars, laterVars>>

\* parts := strings.Split(u, "/"); the loop; n = strings.Join(parts, "/")
UrlCompute(p) ==
  /\ urlPc[p] = "compute"
  /\ urlN' = [urlN EXCEPT ![p] = NormalizeMiss(urlArg[p])]
  /\ urlPc' = [urlPc EXCEPT ![p] = "store"]
  /\ UNCHANGED <<normalizedURLsMu, urlArg, urlRet, metadataVars, helperVars, bodyVars,
                 fileVars, normalizeVars, resolveVars, fetchVars, laterVars>>

\* normalizedURLs[u] = n
UrlStore(p) ==
  /\ urlPc[p] = "store"
  /\ normalizedURLs' = Put(normalizedURLs, urlArg[p], urlN[p])
  /\ urlPc' = [urlPc EXCEPT ![p] = "unlock"]
  /\ UNCHANGED <<Methods, ManualOps, OverrideOps, OpenapiOps, resolvedOps, serviceMethods,
                 issues, canonErr, last, pre, canonized, rewritten>>
  /\ UNCHANGED <<normalizedURLsMu, urlArg, urlN, urlRet, helperVars, bodyVars, fileVars,
                 normalizeVars, resolveVars, fetchVars, laterVars>>

\* return n, and the deferred normalizedURLsMu.Unlock()
UrlReturn(p) ==
  /\ urlPc[p] = "unlock"
  /\ normalizedURLsMu' = 0
  /\ urlRet' = [urlRet EXCEPT ![p] = [done |-> TRUE, value |-> urlN[p]]]
  /\ urlPc' = [urlPc EXCEPT ![p] = "idle"]
  /\ UNCHANGED <<urlArg, urlN, metadataVars, helperVars, bodyVars, fileVars,
                 normalizeVars, resolveVars, fetchVars, laterVars>>

NextCache ==
  \E p \in Procs :
    \/ UrlCall(p)
    \/ UrlLock(p)
    \/ UrlLookup(p)
    \/ UrlCompute(p)
    \/ UrlStore(p)
    \/ UrlReturn(p)

SpecCache == InitCache /\ [][NextCache]_vars

(***************************************************************************)
(* GetDescriptions: the listing, the sort, and the errgroup of loads.      *)
(*                                                                         *)
(* A directory entry is given with what dirPatterns find in its name: the  *)
(* plan (or none) and the version, 0.0 when the name has none.             *)
(***************************************************************************)
DirEntry(name, plan, major, minor) ==
  [name |-> name, plan |-> plan, major |-> major, minor |-> minor]

\* The plans in the order of dirPatterns.
dirPatterns == <<"api.github.com", "ghec", "ghes">>

DirEntries ==
  {DirEntry("api.github.com", "api.github.com", 0, 0), DirEntry("ghec", "ghec", 0, 0),
   DirEntry("ghes-3.9", "ghes", 3, 9), DirEntry("ghes-3.10", "ghes", 3, 10),
   DirEntry("ghes-3.09", "ghes", 3, 9), DirEntry("ghes-2.22", "ghes", 2, 22),
   DirEntry("other", "", 0, 0)}

\* The listings: up to MaxDirs different entries, in any order.
Listings ==
  {l \in SeqsUpTo(DirEntries, MaxDirs) : \A i, j \in 1..Len(l) : l[i] = l[j] => i = j}

\* The index of the pattern that matches d's name, 0 when none does.
PatternIndex(d) ==
  IF \E i \in 1..Len(dirPatterns) : dirPatterns[i] = d.plan
  THEN (CHOOSE i \in 1..Len(dirPatterns) : dirPatterns[i] = d.plan) - 1
  ELSE 0 - 1

OpenapiFile(d) ==
  [Filename |-> d.name, plan |-> d.plan, planIdx |-> PatternIndex(d),
   releaseMajor |-> d.major, releaseMinor |-> d.minor, loaded |-> FALSE]

\* The loop over dir: entries no pattern matches, and ghes below 3, are left out.
RECURSIVE MatchedFiles(_)
MatchedFiles(l) ==
  IF Len(l) = 0 THEN <<>>
  ELSE LET d == Head(l)
       IN  IF PatternIndex(d) < 0 \/ (d.plan = "ghes" /\ d.major < 3)
           THEN MatchedFiles(Tail(l))
           ELSE <<OpenapiFile(d)>> \o MatchedFiles(Tail(l))

\* (o *OpenapiFile).less(other)
less(o, other) ==
  IF o.planIdx # other.planIdx THEN o.planIdx < other.planIdx
  ELSE IF o.releaseMajor # other.releaseMajor THEN o.releaseMajor > other.releaseMajor
  ELSE o.releaseMinor > other.releaseMinor

lessIn(fs) == {x \in (1..Len(fs)) \X (1..Len(fs)) : less(fs[x[1]], fs[x[2]])}

ErrLoad(name) == [msg |-> "unexpected status code", file |-> name]

ErrCancelled(name) == [msg |-> "context canceled", file |-> name]

ErrListing == [msg |-> "unexpected status code", file |-> "descriptions"]

InitFetch ==
  /\ NoDocument
  /\ NothingExtracted

\* GetContents succeeds: the files are built from the listing and sorted, and
\* g.Go starts one goroutine for each.
List ==
  /\ fetchStage = "start"
  /\ \E l \in Listings :
       /\ dir' = l
       /\ \E fs \in SortedSlices(MatchedFiles(l), lessIn(MatchedFiles(l))) :
            /\ files' = fs
            /\ fetchPc' = [i \in 1..Len(fs) |-> "started"]
  /\ fetchStage' = "fetching"
  /\ UNCHANGED <<ctxCancelled, groupErr, failures, fetchResult>>
  /\ UNCHANGED <<metadataVars, helperVars, bodyVars, fileVars, normalizeVars, resolveVars,
                 cacheVars, laterVars>>

\* GetContents fails: return nil, err.
ListFails ==
  /\ fetchStage = "start"
  /\ fetchStage' = "returned"
  /\ fetchResult' = [files |-> <<>>, err |-> ErrListing]
  /\ UNCHANGED <<dir, files, fetchPc, ctxCancelled, groupErr, failures>>
  /\ UNCHANGED <<metadataVars, helperVars, bodyVars, fileVars, normalizeVars, resolveVars,
                 cacheVars, laterVars>>

\* The load of file i ends without error: o.Description = *desc.
LoadOk(i) ==
  /\ fetchStage = "fetching"
  /\ fetchPc[i] = "started"
  /\ ~ctxCancelled
  /\ fetchPc' = [fetchPc EXCEPT ![i] = "loaded"]
  /\ files' = [files EXCEPT ![i].loaded = TRUE]
  /\ UNCHANGED <<dir, fetchStage, ctxCancelled, groupErr, failures, fetchResult>>
  /\ UNCHANGED <<metadataVars, helperVars, bodyVars, fileVars, normalizeVars, resolveVars,
                 cacheVars, laterVars>>

\* The load of file i fails and every failure replaces the error kept.
LoadFailsLastWins(i) ==
  /\ fetchStage = "fetching"
  /\ fetchPc[i] = "started"
  /\ fetchPc' = [fetchPc EXCEPT ![i] = "failed"]
  /\ failures' = Append(failures, i)
  /\ groupErr' = IF ctxCancelled THEN ErrCancelled(files[i].Filename)
                 ELSE ErrLoad(files[i].Filename)
  /\ ctxCancelled' = TRUE
  /\ UNCHANGED <<dir, fetchStage, files, fetchResult>>
  /\ UNCHANGED <<metadataVars, helperVars, bodyVars, fileVars, normalizeVars, resolveVars,
                 cacheVars, laterVars>>

\* The load of file i returns an error, its own or that of the cancelled
\* context; the errgroup keeps the first error and cancels the context.
LoadFails(i) ==
  /\ fetchStage = "fetching"
  /\ fetchPc[i] = "started"
  /\ fetchPc' = [fetchPc EXCEPT ![i] = "failed"]
  /\ failures' = Append(failures, i)
  /\ groupErr' = IF groupErr # NoFetchError THEN groupErr
                 ELSE IF ctxCancelled THEN ErrCancelled(files[i].Filename)
                 ELSE ErrLoad(files[i].Filename)
  /\ ctxCancelled' = TRUE
  /\ UNCHANGED <<dir, fetchStage, files, fetchResult>>
  /\ UNCHANGED <<metadataVars, helperVars, bodyVars, fileVars, normalizeVars, resolveVars,
                 cacheVars, laterVars>>

\* err = g.Wait(), all goroutines having returned; nil, err or files, nil.
Wait ==
  /\ fetchStage = "fetching"
  /\ \A i \in 1..Len(files) : fetchPc[i] # "started"
  /\ fetchStage' = "returned"
  /\ ctxCancelled' = TRUE
  /\ fetchResult' = IF groupErr # NoFetchError THEN [files |-> <<>>, err |-> groupErr]
                    ELSE [files |-> files, err |-> NoFetchError]
  /\ UNCHANGED <<dir, files, fetchPc, groupErr, failures>>
  /\ UNCHANGED <<metadataVars, helperVars, bodyVars, fileVars, normalizeVars, resolveVars,
                 cacheVars, laterVars>>

NextFetch ==
  \/ List
  \/ ListFails
  \/ \E i \in 1..Len(files) : LoadOk(i) \/ LoadFails(i)
  \/ Wait

SpecFetch == InitFetch /\ [][NextFetch]_vars

(***************************************************************************)
(* addOperation: the list of operations built from the description files.  *)
(* Here a file name is a sequence of characters, as strings.Contains takes *)
(* it apart.                                                               *)
(***************************************************************************)
\* strings.Contains(s, substr)
Contains(s, substr) ==
  \E i \in 0..(Len(s) - Len(substr)) : SubSeq(s, i + 1, i + Len(substr)) = substr

Ghes == <<"/", "g", "h", "e", "s">>

\* The first index of ops whose operation has the name; 0 when there is none.
FirstNamed(ops, opName) ==
  IF \E i \in 1..Len(ops) : ops[i].Name = opName
  THEN CHOOSE i \in 1..Len(ops) : ops[i].Name = opName /\ \A j \in 1..(i - 1) : ops[j].Name # opName
  ELSE 0

\* An addOperation that appends every file name.
addOperationEveryFile(ops, filename, opName, docURL) ==
  LET i == FirstNamed(ops, opName)
  IN  IF i = 0 THEN Append(ops, Operation(opName, docURL, <<filename>>))
      ELSE [ops EXCEPT ![i].OpenAPIFiles = Append(@, filename)]

\* addOperation(ops, filename, opName, docURL)
addOperation(ops, filename, opName, docURL) ==
  LET i == FirstNamed(ops, opName)
  IN  IF i = 0 THEN Append(ops, Operation(opName, docURL, <<filename>>))
      ELSE IF Len(ops[i].OpenAPIFiles) = 0
      THEN [ops EXCEPT ![i].OpenAPIFiles = Append(@, filename),
                       ![i].DocumentationURL = docURL]
      ELSE IF ~Contains(filename, Ghes)
      THEN [ops EXCEPT ![i].OpenAPIFiles = Append(@, filename)]
      ELSE IF \E k \in 1..Len(ops[i].OpenAPIFiles) : Contains(ops[i].OpenAPIFiles[k], Ghes)
      THEN ops
      ELSE [ops EXCEPT ![i].OpenAPIFiles = Append(@, filename)]

\* "d/api.json", "d/ghes-3.9.json", "d/ghes-3.8.json" and "ghes.json", which
\* has no "/ghes".
FileApi == <<"d", "/", "a", "p", "i">>
FileGhes39 == <<"d", "/", "g", "h", "e", "s", "9">>
FileGhes38 == <<"d", "/", "g", "h", "e", "s", "8">>
FileGhesPlain == <<"g", "h", "e", "s">>

AddFiles == {FileApi, FileGhes39, FileGhes38, FileGhesPlain}
AddNames == {NameAx, NameB}
AddDocs == {"docs/first", "docs/second"}

InitAdd ==
  /\ NoDocument
  /\ NothingExtracted

\* ops = addOperation(ops, filename, opName, docURL)
AddOperation ==
  /\ Len(addCalls) < MaxAdds
  /\ \E filename \in AddFiles, opName \in AddNames, docURL \in AddDocs :
       /\ opList' = addOperation(opList, filename, opName, docURL)
       /\ addCalls' = Append(addCalls, [filename |-> filename, opName |-> opName,
                                        docURL |-> docURL])
  /\ UNCHANGED <<metadataVars, helperVars, bodyVars, fileVars, normalizeVars, resolveVars,
                 cacheVars, fetchVars, refreshVars>>

NextAdd == AddOperation

SpecAdd == InitAdd /\ [][NextAdd]_vars

(***************************************************************************)
(* The remote refresh: Metadata.UpdateFromGithub and ValidateGitCommit,    *)
(* with the lookups that resolve the view.                                 *)
(*                                                                         *)
(* The remote repository is a history of commits, each with the operations *)
(* its description files give; its branch points at one of them and may    *)
(* move on while a call is under way.                                      *)
(***************************************************************************)
Commits == <<"c1", "c2", "c3">>

CommitNo(sha) == CHOOSE k \in 1..Len(Commits) : Commits[k] = sha

\* The operations of the descriptions at a commit: the second commit adds
\* "G /b", the third changes no operation.
RemoteOps(sha) ==
  IF sha = "c1" THEN <<OpenapiEntry(NameAx)>>
  ELSE <<OpenapiEntry(NameAx), OpenapiEntry(NameB)>>

ErrGetCommit == "GetCommit failed"
ErrStatus == "unexpected status code: %s"
ErrGetOps == "getOpsFromGithub failed"

\* client.GetCommit(ctx, owner, repo, ref, nil) with the branch at `at`.
GetCommit(at, outcome) ==
  [SHA |-> IF outcome = "error" THEN "" ELSE at,
   StatusCode |-> IF outcome = "status" THEN 500 ELSE 200,
   err |-> IF outcome = "error" THEN ErrGetCommit ELSE ""]

\* getOpsFromGithub(ctx, client, ref) with ref at commit `at`: the operations
\* of the description files there, or the error of the fetch.
getOpsFromGithub(at, outcome) ==
  IF outcome = "error" THEN [ops |-> <<>>, err |-> ErrGetOps]
  ELSE [ops |-> RemoteOps(at), err |-> ""]

\* (o *Operation).equal(other)
equal(o, other) ==
  /\ o.Name = other.Name
  /\ o.DocumentationURL = other.DocumentationURL
  /\ Len(o.OpenAPIFiles) = Len(other.OpenAPIFiles)
  /\ \A i \in 1..Len(o.OpenAPIFiles) : o.OpenAPIFiles[i] = other.OpenAPIFiles[i]

operationsEqual(a, b) ==
  /\ Len(a) = Len(b)
  /\ \A i \in 1..Len(a) : equal(a[i], b[i])

\* A refresh that records the commit before it fetches the operations.
UpdateFromGithubCommitFirst(m, gitCommit, commit, fetched) ==
  IF commit.err # "" THEN [m |-> m, GitCommit |-> gitCommit, err |-> commit.err]
  ELSE IF commit.StatusCode # 200 THEN [m |-> m, GitCommit |-> gitCommit, err |-> ErrStatus]
  ELSE IF fetched.err # "" THEN [m |-> m, GitCommit |-> commit.SHA, err |-> fetched.err]
  ELSE [m |-> [m EXCEPT !.OpenapiOps = fetched.ops], GitCommit |-> commit.SHA, err |-> ""]

\* m.UpdateFromGithub(ctx, client, ref): commit is what GetCommit answered,
\* fetched what getOpsFromGithub returned.
UpdateFromGithub(m, gitCommit, commit, fetched) ==
  IF commit.err # "" THEN [m |-> m, GitCommit |-> gitCommit, err |-> commit.err]
  ELSE IF commit.StatusCode # 200 THEN [m |-> m, GitCommit |-> gitCommit, err |-> ErrStatus]
  ELSE IF fetched.err # "" THEN [m |-> m, GitCommit |-> gitCommit, err |-> fetched.err]
  ELSE IF ~operationsEqual(m.OpenapiOps, fetched.ops)
  THEN [m |-> [m EXCEPT !.OpenapiOps = fetched.ops], GitCommit |-> commit.SHA, err |-> ""]
  ELSE [m |-> m, GitCommit |-> gitCommit, err |-> ""]

MsgCommitMismatch == "openapi_operations does not match operations from git commit %s"

\* ValidateGitCommit(ctx, client, meta); fetched is what getOpsFromGithub
\* returned for meta.GitCommit.
ValidateGitCommit(m, gitCommit, fetched) ==
  IF fetched.err # "" THEN [msg |-> "", commit |-> "", err |-> fetched.err]
  ELSE IF ~operationsEqual(fetched.ops, m.OpenapiOps)
  THEN [msg |-> MsgCommitMismatch, commit |-> gitCommit, err |-> ""]
  ELSE [msg |-> "", commit |-> "", err |-> ""]

\* The values of the resolved map for the names, sorted by sortOperations.
Sorted(view, names) == sortOperations({view[n] : n \in names \cap DOMAIN view})

\* m.getOperation(name): the operation, or none.
getOperation(m, name) == Sorted(resolve(m).resolvedOps.ops, {name})

\* m.Operations()
Operations(m) ==
  Sorted(resolve(m).resolvedOps.ops, DOMAIN resolve(m).resolvedOps.ops)

\* m.operationsForMethod(methodName), for a method of distinct names.
operationsForMethod(m, methodName) ==
  IF ~hasMethod(m, methodName) THEN <<>>
  ELSE LET method == m.Methods[CHOOSE i \in 1..Len(m.Methods) :
                                 /\ m.Methods[i].Name = methodName
                                 /\ \A j \in 1..(i - 1) : m.Methods[j].Name # methodName]
       IN  Sorted(resolve(m).resolvedOps.ops,
                  {method.OpNames[k] : k \in 1..Len(method.OpNames)})

\* Documents with the openapi layer of the first or of the second commit,
\* and the marker of any commit.
InitRefresh ==
  /\ Methods \in {<<[Name |-> MethodGet, OpNames |-> <<NameAz, NameB>>]>>,
                  <<[Name |-> MethodGet, OpNames |-> <<NameAx>>]>>}
  /\ OpenapiOps \in {RemoteOps(Commits[1]), RemoteOps(Commits[2])}
  /\ ManualOps \in SubSeqs(<<ManualEntry(NamePx)>>)
  /\ OverrideOps \in SubSeqs(<<Operation(NameB, "docs/override", <<>>)>>)
  /\ serviceMethods = <<MethodGet>>
  /\ Loaded
  /\ GitCommit \in {Commits[k] : k \in 1..Len(Commits)}
  /\ file = NoFile
  /\ original = <<>>
  /\ saves = 0
  /\ NothingNormalized
  /\ NothingCalled
  /\ NoCacheCall /\ NoFetch /\ NoAdd
  /\ head \in {Commits[1], Commits[2]}
  /\ refreshErr = ""
  /\ preCommit = GitCommit
  /\ lookup = NoLookup
  /\ commitMsg = NotValidated
  /\ NothingExtracted

\* A call of a lookup: m.getOperation(name), m.Operations() or
\* m.operationsForMethod(name).
Lookup ==
  /\ \E kind \in {"getOperation", "Operations", "operationsForMethod"} :
       \E arg \in IF kind = "getOperation" THEN {NameAx, NameB}
                  ELSE IF kind = "Operations" THEN {<<>>}
                  ELSE {MethodGet, MethodList} :
         LET r == resolve(meta)
             found == CASE kind = "getOperation" -> getOperation(meta, arg)
                        [] kind = "Operations" -> Operations(meta)
                        [] OTHER -> operationsForMethod(meta, arg)
         IN  /\ resolvedOps' = r.resolvedOps
             /\ lookup' = [kind |-> kind, arg |-> arg,
                           ops |-> [k \in 1..Len(found) |-> Fields(found[k])]]
  /\ last' = "lookup"
  /\ pre' = Snapshot
  /\ preCommit' = GitCommit
  /\ UNCHANGED <<Methods, ManualOps, OverrideOps, OpenapiOps, normalizedURLs, serviceMethods,
                 issues, canonErr, canonized, rewritten>>
  /\ UNCHANGED <<head, refreshErr, commitMsg>>
  /\ UNCHANGED <<helperVars, bodyVars, fileVars, normalizeVars, resolveVars, cacheVars,
                 fetchVars, addVars>>

\* A call of m.UpdateFromGithub(ctx, client, "main"): GetCommit answers with
\* the commit the branch is at, or fails; the branch may have moved on when
\* getOpsFromGithub fetches the descriptions, which may fail too.
Update ==
  /\ \E answer \in {"ok", "error", "status"}, fetch \in {"ok", "error"},
        later \in {Commits[k] : k \in 1..Len(Commits)} :
       /\ CommitNo(later) >= CommitNo(head)
       /\ LET u == UpdateFromGithub(meta, GitCommit, GetCommit(head, answer),
                                    getOpsFromGithub(later, fetch))
          IN  /\ OpenapiOps' = u.m.OpenapiOps
              /\ Methods' = u.m.Methods
              /\ ManualOps' = u.m.ManualOps
              /\ OverrideOps' = u.m.OverrideOps
              /\ resolvedOps' = u.m.resolvedOps
              /\ GitCommit' = u.GitCommit
              /\ refreshErr' = u.err
       /\ head' = later
  /\ last' = "update"
  /\ pre' = Snapshot
  /\ preCommit' = GitCommit
  /\ UNCHANGED <<normalizedURLs, serviceMethods, issues, canonErr, canonized, rewritten>>
  /\ UNCHANGED <<lookup, commitMsg, file, original, saves>>
  /\ UNCHANGED <<helperVars, bodyVars, normalizeVars, resolveVars, cacheVars, fetchVars,
                 addVars>>

\* A call of ValidateGitCommit(ctx, client, meta).
ValidateCommit ==
  /\ \E fetch \in {"ok", "error"} :
       LET v == ValidateGitCommit(meta, GitCommit, getOpsFromGithub(GitCommit, fetch))
       IN  commitMsg' = [msg |-> v.msg, commit |-> v.commit]
  /\ last' = "validateCommit"
  /\ pre' = Snapshot
  /\ preCommit' = GitCommit
  /\ UNCHANGED <<Methods, ManualOps, OverrideOps, OpenapiOps, resolvedOps, normalizedURLs,
                 serviceMethods, issues, canonErr, canonized, rewritten>>
  /\ UNCHANGED <<head, refreshErr, lookup>>
  /\ UNCHANGED <<helperVars, bodyVars, fileVars, normalizeVars, resolveVars, cacheVars,
                 fetchVars, addVars>>

NextRefresh == Lookup \/ Update \/ Canonize \/ ValidateCommit

SpecRefresh == InitRefresh /\ [][NextRefresh]_vars

(***************************************************************************)
(* What the claims speak of, stated from the specification's words and     *)
(* not through the operators above.                                        *)
(***************************************************************************)
\* The names of the resolved view: the one the instance holds, which is the
\* one its next lookup builds when it holds none yet.
ViewNames == DOMAIN resolve(meta).resolvedOps.ops

LayerNames(layer) == {layer[i].Name : i \in 1..Len(layer)}

Occurrences(seq, x) == Cardinality({i \in 1..Len(seq) : seq[i] = x})

\* The verb of an operation name and its path: the text around the first space.
FirstSpace(n) == CHOOSE i \in 1..Len(n) : n[i] = " " /\ \A j \in 1..(i - 1) : n[j] # " "
VerbOf(n) == SubSeq(n, 1, FirstSpace(n) - 1)
PathOf(n) == SubSeq(n, FirstSpace(n) + 1, Len(n))

SlashesBefore(u, i) == Cardinality({j \in 1..(i - 1) : u[j] = "/"})

\* Path segment k (from 0) of u: the characters after its k-th slash.
Segment(u, k) ==
  LET at == {i \in 1..Len(u) : u[i] # "/" /\ SlashesBefore(u, i) = k}
  IN  IF at = {} THEN <<>>
      ELSE SubSeq(u, CHOOSE i \in at : \A j \in at : i <= j,
                     CHOOSE i \in at : \A j \in at : j <= i)

IsParameter(seg) == Len(seg) >= 2 /\ seg[1] = "{" /\ seg[Len(seg)] = "}"

\* a and b have one normalized name: the same verb, and paths that differ
\* only in the spelling of their {...} segments.
SameNormalizedName(a, b) ==
  /\ VerbOf(a) = VerbOf(b)
  /\ SlashesBefore(PathOf(a), Len(PathOf(a)) + 1) = SlashesBefore(PathOf(b), Len(PathOf(b)) + 1)
  /\ \A k \in 0..SlashesBefore(PathOf(a), Len(PathOf(a)) + 1) :
       \/ Segment(PathOf(a), k) = Segment(PathOf(b), k)
       \/ IsParameter(Segment(PathOf(a), k)) /\ IsParameter(Segment(PathOf(b), k))

\* The resolved operations that share the normalized name of `name`.
Matches(name) == {n \in ViewNames : SameNormalizedName(n, name)}

\* The entries of a method mapping, as <<method index, entry index>>.
Entries(methods) ==
  {<<mi, oi>> : mi \in 1..Len(methods), oi \in 1..MaxOpNames + 1}
    \cap {e \in (1..Len(methods)) \X (1..MaxOpNames + 1) :
            e[2] <= Len(methods[e[1]].OpNames)}

EntryAt(methods, e) == methods[e[1]].OpNames[e[2]]

\* Entry e comes before entry f in the order the mapping is walked in.
Earlier(e, f) == e[1] < f[1] \/ (e[1] = f[1] /\ e[2] < f[2])

\* An entry canonicalization cannot settle: not verbatim, and not one match.
Unsettled(methods, e) ==
  /\ EntryAt(methods, e) \notin ViewNames
  /\ Cardinality(Matches(EntryAt(methods, e))) # 1

FirstUnsettled(methods, e) ==
  /\ Unsettled(methods, e)
  /\ \A f \in Entries(methods) : Earlier(f, e) => ~Unsettled(methods, f)

\* Entry e is reached: no unsettled entry comes before it.
Reached(methods, e) == \A f \in Entries(methods) : Earlier(f, e) => ~Unsettled(methods, f)

SameShape(methods, before) ==
  /\ Len(methods) = Len(before)
  /\ \A i \in 1..Len(methods) :
       /\ methods[i].Name = before[i].Name
       /\ Len(methods[i].OpNames) = Len(before[i].OpNames)

SeqToSet(seq) == {seq[i] : i \in 1..Len(seq)}

EntriesNamed(layer, n) == SelectSeq(layer, LAMBDA o : o.Name = n)

\* The entry of the manual or openapi layer that name n stands for: the
\* manual one when both layers have it, the last one of several in a layer.
BaseEntry(n) ==
  LET named == IF n \in LayerNames(ManualOps)
               THEN EntriesNamed(ManualOps, n) ELSE EntriesNamed(OpenapiOps, n)
  IN  named[Len(named)]

\* The value the override layer gives a field of n: that of its entry for n
\* when it has one; of several entries for n, the last non-empty value.
OverrideDocumentationURL(n) ==
  LET given == SelectSeq(EntriesNamed(OverrideOps, n), LAMBDA o : o.DocumentationURL # "")
  IN  IF Len(given) = 0 THEN "" ELSE given[Len(given)].DocumentationURL

OverrideOpenAPIFiles(n) ==
  LET given == SelectSeq(EntriesNamed(OverrideOps, n), LAMBDA o : Len(o.OpenAPIFiles) > 0)
  IN  IF Len(given) = 0 THEN <<>> ELSE given[Len(given)].OpenAPIFiles

BaseNames == LayerNames(ManualOps) \cup LayerNames(OpenapiOps)

(***************************************************************************)
(* C2: for every name present in the manual or openapi layer and also in   *)
(* the override layer, the resolved documentationURL is the override's     *)
(* value when that is non-empty and the base-layer entry's otherwise, and  *)
(* the resolved file list is the override's list when that is non-empty    *)
(* and the base-layer entry's otherwise.                                   *)
(***************************************************************************)
C2_OverridePrecedence ==
  ~resolvedOps.isNil =>
    \A n \in BaseNames \cap LayerNames(OverrideOps) :
      /\ n \in ViewNames
      /\ resolvedOps.ops[n].DocumentationURL =
           IF OverrideDocumentationURL(n) # ""
           THEN OverrideDocumentationURL(n) ELSE BaseEntry(n).DocumentationURL
      /\ resolvedOps.ops[n].OpenAPIFiles =
           IF Len(OverrideOpenAPIFiles(n)) > 0
           THEN OverrideOpenAPIFiles(n) ELSE BaseEntry(n).OpenAPIFiles

\* A resolved view in which one override entry replaced the documentation
\* URL of an openapi entry and left its file list, and another override
\* entry, with an empty URL, left the URL of a manual entry.
C2_Witness ==
  /\ ~resolvedOps.isNil
  /\ \E n \in LayerNames(OpenapiOps) \ LayerNames(ManualOps) :
       /\ Len(EntriesNamed(OverrideOps, n)) = 1
       /\ EntriesNamed(OverrideOps, n)[1].DocumentationURL # ""
       /\ resolvedOps.ops[n].DocumentationURL = EntriesNamed(OverrideOps, n)[1].DocumentationURL
       /\ resolvedOps.ops[n].DocumentationURL # BaseEntry(n).DocumentationURL
       /\ resolvedOps.ops[n].OpenAPIFiles = BaseEntry(n).OpenAPIFiles
  /\ \E n \in LayerNames(ManualOps) :
       /\ Len(EntriesNamed(OverrideOps, n)) = 1
       /\ EntriesNamed(OverrideOps, n)[1].DocumentationURL = ""
       /\ resolvedOps.ops[n].DocumentationURL = BaseEntry(n).DocumentationURL
       /\ resolvedOps.ops[n].DocumentationURL # ""

(***************************************************************************)
(* C3: the resolved view is keyed by operation name and its key set is the *)
(* union of the names of the three layers; a name in both the openapi and  *)
(* the manual layer resolves to the manual entry (where no override        *)
(* patches it), and an override entry whose name is in neither other layer *)
(* is an entry of the view with the override's own fields.                 *)
(***************************************************************************)
C3_ResolvedKeySet ==
  ~resolvedOps.isNil =>
    /\ ViewNames = LayerNames(OpenapiOps) \cup LayerNames(ManualOps) \cup LayerNames(OverrideOps)
    /\ \A n \in ViewNames : resolvedOps.ops[n].Name = n
    /\ \A n \in (LayerNames(OpenapiOps) \cap LayerNames(ManualOps)) \ LayerNames(OverrideOps) :
         \A i \in 1..Len(ManualOps) :
           ManualOps[i].Name = n => Fields(resolvedOps.ops[n]) = ManualOps[i]
    /\ \A n \in LayerNames(OpenapiOps) \ (LayerNames(ManualOps) \cup LayerNames(OverrideOps)) :
         \A i \in 1..Len(OpenapiOps) :
           OpenapiOps[i].Name = n => Fields(resolvedOps.ops[n]) = OpenapiOps[i]
    /\ \A n \in LayerNames(OverrideOps) \ BaseNames :
         Len(EntriesNamed(OverrideOps, n)) = 1 =>
           Fields(resolvedOps.ops[n]) = EntriesNamed(OverrideOps, n)[1]

\* A resolved view with a name of both the openapi and the manual layer and
\* a standalone override entry that has a documentation URL.
C3_Witness ==
  /\ ~resolvedOps.isNil
  /\ (LayerNames(OpenapiOps) \cap LayerNames(ManualOps)) \ LayerNames(OverrideOps) # {}
  /\ \E n \in LayerNames(OverrideOps) \ BaseNames :
       /\ Len(EntriesNamed(OverrideOps, n)) = 1
       /\ resolvedOps.ops[n].DocumentationURL # ""

\* The number of times `issue` is in the list the last validation returned.
IssueCount(issue) == Occurrences(issues, issue)

\* Method i is the first of the mapping with its name.
FirstOfName(methods, i) == \A j \in 1..(i - 1) : methods[j].Name # methods[i].Name

MethodNamesOf(methods) == {methods[i].Name : i \in 1..Len(methods)}

NamingIssues(method) ==
  {i \in 1..Len(issues) :
     /\ issues[i].method = method
     /\ issues[i].msg \in {MsgNotCanonical, MsgNotDefined}}

\* The first two statements of C4: what validation reports for a method
\* entry with exactly one normalized match, and what canonicalization
\* makes of it.
C4_BeforeAndRewrite(onlyFirstOfName) ==
  /\ last = "validate" =>
       \A e \in Entries(Methods) :
         LET name == EntryAt(Methods, e)
         IN  (/\ name \notin ViewNames
              /\ Cardinality(Matches(name)) = 1
              /\ (onlyFirstOfName => FirstOfName(Methods, e[1])))
               => IssueCount(Issue(MsgNotCanonical, Methods[e[1]].Name, name)) > 0
  /\ (last = "canonize" /\ canonErr = NoError) =>
       \A e \in Entries(pre.Methods) :
         LET name == EntryAt(pre.Methods, e)
         IN  (name \notin ViewNames /\ Cardinality(Matches(name)) = 1)
               => Matches(name) = {EntryAt(Methods, e)}

(***************************************************************************)
(* C4, as claimed: a method entry that is not in the resolved view         *)
(* verbatim and has exactly one normalized match gets a "does not use the  *)
(* canonical name" issue from ValidateMetadata; a successful               *)
(* CanonizeMethodOperations makes it that operation's exact name; and a    *)
(* ValidateMetadata after it reports no issue for that method.             *)
(***************************************************************************)
C4_AsClaimed ==
  /\ C4_BeforeAndRewrite(FALSE)
  /\ (last = "validate" /\ canonized) =>
       \A i \in 1..Len(issues) : issues[i].method \notin rewritten

(***************************************************************************)
(* C4, amended: the "does not use the canonical name" issue is reported    *)
(* for such an entry of the first method entry with its name (a repeated   *)
(* method entry is reported as duplicated and its operations are not       *)
(* looked at); a successful CanonizeMethodOperations makes the entry that  *)
(* operation's exact name; and a ValidateMetadata after it reports neither *)
(* a "does not use the canonical name" nor a "is not defined" issue for    *)
(* any method (issues of other kinds may remain for the method).           *)
(***************************************************************************)
C4_ValidateCanonizeValidate ==
  /\ C4_BeforeAndRewrite(TRUE)
  /\ (last = "validate" /\ canonized) =>
       \A n \in MethodNamesOf(Methods) : NamingIssues(n) = {}

\* A validation after a canonicalization that rewrote an entry of a method.
C4_Witness ==
  /\ last = "validate"
  /\ canonized
  /\ rewritten # {}
  /\ \A n \in rewritten : NamingIssues(n) = {}

(***************************************************************************)
(* C5: CanonizeMethodOperations on a mapping whose entries are all present *)
(* verbatim in the resolved view returns no error and changes no entry,    *)
(* and so does a run that follows a successful run.                        *)
(***************************************************************************)
C5_CanonizeIdempotent ==
  last = "canonize" =>
    /\ (\A e \in Entries(pre.Methods) : EntryAt(pre.Methods, e) \in ViewNames)
         => (canonErr = NoError /\ Methods = pre.Methods)
    /\ pre.canonized => (canonErr = NoError /\ Methods = pre.Methods)

\* A second run after a run that rewrote an entry.
C5_Witness ==
  /\ last = "canonize"
  /\ pre.canonized
  /\ rewritten # {}
  /\ Methods = pre.Methods

(***************************************************************************)
(* C6: ValidateMetadata reports exactly one "does not exist in             *)
(* metadata.yaml. Please add it." issue for each discovered method without *)
(* a metadata entry, exactly one "does not exist in github package" issue  *)
(* for each metadata method that was not discovered, and neither for a     *)
(* method on both sides.                                                   *)
(***************************************************************************)
C6_MethodCrossReference ==
  last = "validate" =>
    \A n \in {MethodGet, MethodList, MethodMissing} :
      LET discovered == n \in SeqToSet(serviceMethods)
          inMetadata == n \in MethodNamesOf(Methods)
      IN  /\ IssueCount(Issue(MsgMissingInMetadata, n, <<>>))
               = IF discovered /\ ~inMetadata THEN 1 ELSE 0
          /\ IssueCount(Issue(MsgMissingInPackage, n, <<>>))
               = IF inMetadata /\ ~discovered THEN 1 ELSE 0

\* A validation with a method on both sides, one only discovered and one
\* only in the metadata.
C6_Witness ==
  /\ last = "validate"
  /\ serviceMethods = <<MethodGet, MethodMissing>>
  /\ Len(Methods) = 2
  /\ Methods[1].Name = MethodGet
  /\ Methods[2].Name = MethodList
  /\ IssueCount(Issue(MsgMissingInMetadata, MethodMissing, <<>>)) = 1
  /\ IssueCount(Issue(MsgMissingInPackage, MethodList, <<>>)) = 1

\* How often operation name `name` is listed under method name n: in every
\* entry of the mapping with that method name, or in the first one only.
RECURSIVE ListedFrom(_, _, _, _)
ListedFrom(n, name, firstOnly, i) ==
  IF i > Len(Methods) THEN 0
  ELSE (IF Methods[i].Name = n /\ (firstOnly => FirstOfName(Methods, i))
        THEN Occurrences(Methods[i].OpNames, name) ELSE 0)
       + ListedFrom(n, name, firstOnly, i + 1)

\* What C8 says of the operation names listed under every method name.
C8_Classified(firstOnly) ==
  last = "validate" =>
    \A n \in MethodNamesOf(Methods) :
      \A name \in {NameAx, NameAy, NameAz, NamePx, NameB} :
        LET times == ListedFrom(n, name, firstOnly, 1)
            verbatim == name \in ViewNames
        IN  /\ IssueCount(Issue(MsgNotCanonical, n, name))
                 = IF ~verbatim /\ Matches(name) # {} THEN times ELSE 0
            /\ IssueCount(Issue(MsgNotDefined, n, name))
                 = IF ~verbatim /\ Matches(name) = {} THEN times ELSE 0

(***************************************************************************)
(* C8, as claimed: every operation name in a metadata method's list is     *)
(* classified in one of three ways: verbatim in the resolved view, no      *)
(* naming issue; not verbatim but with a normalized match, one "does not   *)
(* use the canonical name" issue; neither, one "is not defined in          *)
(* metadata.yaml" issue; never both issues for one occurrence.             *)
(***************************************************************************)
C8_AsClaimed == C8_Classified(FALSE)

(***************************************************************************)
(* C8, amended: the same classification, of every operation name in the    *)
(* list of the first method entry with each method name; the operation     *)
(* names of a repeated method entry get no naming issue at all.            *)
(***************************************************************************)
C8_NamingIssues == C8_Classified(TRUE)

\* A validation that reported a "does not use the canonical name" issue and
\* an "is not defined" issue for a method that also lists a verbatim name.
C8_Witness ==
  /\ last = "validate"
  /\ \E i \in 1..Len(Methods) :
       /\ FirstOfName(Methods, i)
       /\ \E name \in SeqToSet(Methods[i].OpNames) : name \in ViewNames
  /\ \E i \in 1..Len(issues) : issues[i].msg = MsgNotCanonical
  /\ \E i \in 1..Len(issues) : issues[i].msg = MsgNotDefined

NoDuplicateNames(layer) ==
  \A i, j \in 1..Len(layer) : i # j => layer[i].Name # layer[j].Name

\* Name n is carried by more than one entry of the layer.
DuplicatedIn(layer, n) == Len(EntriesNamed(layer, n)) > 1

\* The invariants of the data model on the three layers.
LayerInvariants ==
  /\ NoDuplicateNames(OpenapiOps)
  /\ NoDuplicateNames(ManualOps)
  /\ NoDuplicateNames(OverrideOps)
  /\ LayerNames(ManualOps) \cap LayerNames(OpenapiOps) = {}
  /\ LayerNames(OverrideOps) \subseteq BaseNames

\* The issues of the last validation that are about the operation layers.
LayerIssues ==
  SelectSeq(issues, LAMBDA i : i.msg \in {MsgDupOpenapi, MsgDupManual, MsgInBoth,
                                          MsgDupOverride, MsgOverrideUnknown})

\* The method mapping gives validation nothing to report.
MappingValid ==
  /\ MethodNamesOf(Methods) = SeqToSet(serviceMethods)
  /\ \A i \in 1..Len(Methods) :
       /\ FirstOfName(Methods, i)
       /\ Len(Methods[i].OpNames) > 0
       /\ \A name \in SeqToSet(Methods[i].OpNames) :
            name \in ViewNames /\ Occurrences(Methods[i].OpNames, name) = 1

(***************************************************************************)
(* C7: ValidateMetadata reports a "does not exist in operations or         *)
(* openapi_operations" issue with the override's name once for each        *)
(* override entry whose name is in neither the manual nor the openapi      *)
(* layer, and none for an override whose name is in either; when one such  *)
(* entry is all that is wrong with the document, that issue is the whole   *)
(* list.                                                                   *)
(***************************************************************************)
C7_OverrideUnknown ==
  last = "validate" =>
    /\ \A n \in {NameAx, NameAy, NameAz, NamePx, NameB} :
         IssueCount(Issue(MsgOverrideUnknown, "", n))
           = IF n \in BaseNames THEN 0 ELSE Len(EntriesNamed(OverrideOps, n))
    /\ \A n \in LayerNames(OverrideOps) \ BaseNames :
         (/\ LayerNames(OverrideOps) \ BaseNames = {n}
          /\ NoDuplicateNames(OpenapiOps)
          /\ NoDuplicateNames(ManualOps)
          /\ NoDuplicateNames(OverrideOps)
          /\ LayerNames(ManualOps) \cap LayerNames(OpenapiOps) = {}
          /\ MappingValid)
           => issues = <<Issue(MsgOverrideUnknown, "", n)>>

\* A validation of a document whose one fault is an override of an unknown
\* name beside an override of a known one.
C7_Witness ==
  /\ last = "validate"
  /\ Len(OverrideOps) = 2
  /\ OverrideOps[1].Name \in BaseNames
  /\ OverrideOps[2].Name \notin BaseNames
  /\ issues = <<Issue(MsgOverrideUnknown, "", OverrideOps[2].Name)>>

(***************************************************************************)
(* C9: the operation-layer part of validation reports no issue exactly     *)
(* when names are unique within the openapi, the manual and the override   *)
(* layer, no name is in both the manual and the openapi layer, and every   *)
(* override name is in the manual or the openapi layer; each violation     *)
(* gets at least one issue that names the offending operation.             *)
(***************************************************************************)
C9_LayerInvariantsReported ==
  last = "validate" =>
    /\ (Len(LayerIssues) = 0) <=> LayerInvariants
    /\ \A n \in {NameAx, NameAy, NameAz, NamePx, NameB} :
         /\ DuplicatedIn(OpenapiOps, n) => IssueCount(Issue(MsgDupOpenapi, "", n)) > 0
         /\ DuplicatedIn(ManualOps, n) => IssueCount(Issue(MsgDupManual, "", n)) > 0
         /\ DuplicatedIn(OverrideOps, n) => IssueCount(Issue(MsgDupOverride, "", n)) > 0
         /\ n \in LayerNames(ManualOps) \cap LayerNames(OpenapiOps)
              => IssueCount(Issue(MsgInBoth, "", n)) > 0
         /\ n \in LayerNames(OverrideOps) \ BaseNames
              => IssueCount(Issue(MsgOverrideUnknown, "", n)) > 0

\* A validation of layers with a name duplicated in the manual layer and also
\* present in the openapi layer, and a duplicated override.
C9_Witness ==
  /\ last = "validate"
  /\ \E n \in LayerNames(OpenapiOps) : DuplicatedIn(ManualOps, n)
  /\ \E n \in LayerNames(OverrideOps) : DuplicatedIn(OverrideOps, n)
  /\ Len(LayerIssues) >= 4

(***************************************************************************)
(* C10: ValidateMetadata never mutates its input: after the call the       *)
(* method mapping and the entries of the openapi, manual and override      *)
(* layers are what they were before it, also when the call built the       *)
(* resolved view and an override patched a base-layer entry in it.         *)
(***************************************************************************)
C10_ValidateReadOnly ==
  last = "validate" =>
    /\ Methods = pre.Methods
    /\ OpenapiOps = pre.OpenapiOps
    /\ ManualOps = pre.ManualOps
    /\ OverrideOps = pre.OverrideOps

\* A validation that built the resolved view, in which an override replaced
\* the documentation URL of a base-layer entry.
C10_Witness ==
  /\ last = "validate"
  /\ pre.resolvedOps.isNil
  /\ ~resolvedOps.isNil
  /\ \E n \in BaseNames \cap LayerNames(OverrideOps) :
       resolvedOps.ops[n].DocumentationURL # BaseEntry(n).DocumentationURL

(***************************************************************************)
(* C11: ValidateMetadata scans everything and returns every issue in one   *)
(* list: first the issues of the discovered methods, in inventory order,   *)
(* then the issues of the metadata methods, entry by entry in document     *)
(* order, then the issues of the openapi, the manual and the override      *)
(* layer; an issue found earlier never hides a later one.                  *)
(***************************************************************************)
\* The part of the scan an issue comes from: 1 the inventory, 2 the method
\* mapping, 3 the openapi, 4 the manual and 5 the override layer.
SectionOf(issue) ==
  CASE issue.msg = MsgMissingInMetadata -> 1
    [] issue.msg \in {MsgMethodDuplicated, MsgMissingInPackage, MsgNoOperations,
                      MsgDuplicateOperation, MsgNotCanonical, MsgNotDefined} -> 2
    [] issue.msg = MsgDupOpenapi -> 3
    [] issue.msg \in {MsgDupManual, MsgInBoth} -> 4
    [] OTHER -> 5

IssuesOfSection(s) == SelectSeq(issues, LAMBDA issue : SectionOf(issue) = s)

\* The first place at or after i where x stands in names; Len(names) + 1 when
\* there is none.
RECURSIVE PlaceFrom(_, _, _)
PlaceFrom(names, x, i) ==
  IF i > Len(names) \/ names[i] = x THEN i ELSE PlaceFrom(names, x, i + 1)

\* The owners from the k-th on can be laid along names from place i on without
\* going back; step = 1 when a place takes one owner only.
RECURSIVE FollowsOrder(_, _, _, _, _)
FollowsOrder(owners, names, step, k, i) ==
  IF k > Len(owners) THEN TRUE
  ELSE LET p == PlaceFrom(names, owners[k], i)
       IN  p <= Len(names) /\ FollowsOrder(owners, names, step, k + 1, p + step)

MethodOf(section) == [k \in 1..Len(section) |-> section[k].method]
OperationOf(section) == [k \in 1..Len(section) |-> section[k].op]
NamesOfMethods(methods) == [i \in 1..Len(methods) |-> methods[i].Name]
NamesOfLayer(layer) == [i \in 1..Len(layer) |-> layer[i].Name]

\* How many issues a full scan of each part finds.
InventoryFaults ==
  Cardinality({k \in 1..Len(serviceMethods) :
                 serviceMethods[k] \notin MethodNamesOf(Methods)})

EntryFaults(i) ==
  IF ~FirstOfName(Methods, i) THEN 1
  ELSE (IF Methods[i].Name \in SeqToSet(serviceMethods) THEN 0 ELSE 1)
       + (IF Len(Methods[i].OpNames) = 0 THEN 1 ELSE 0)
       + Cardinality({o \in 1..Len(Methods[i].OpNames) :
                        \E j \in 1..(o - 1) : Methods[i].OpNames[j] = Methods[i].OpNames[o]})
       + Cardinality({o \in 1..Len(Methods[i].OpNames) :
                        Methods[i].OpNames[o] \notin ViewNames})

RECURSIVE MappingFaultsFrom(_)
MappingFaultsFrom(i) ==
  IF i > Len(Methods) THEN 0 ELSE EntryFaults(i) + MappingFaultsFrom(i + 1)

RepeatsIn(layer) ==
  Cardinality({i \in 1..Len(layer) : \E j \in 1..(i - 1) : layer[j].Name = layer[i].Name})

MembersIn(layer, names) ==
  Cardinality({i \in 1..Len(layer) : layer[i].Name \in names})

C11_FullOrderedScan ==
  last = "validate" =>
    /\ \A k \in 1..(Len(issues) - 1) : SectionOf(issues[k]) <= SectionOf(issues[k + 1])
    /\ FollowsOrder(MethodOf(IssuesOfSection(1)), serviceMethods, 1, 1, 1)
    /\ FollowsOrder(MethodOf(IssuesOfSection(2)), NamesOfMethods(Methods), 0, 1, 1)
    /\ FollowsOrder(OperationOf(IssuesOfSection(3)), NamesOfLayer(OpenapiOps), 0, 1, 1)
    /\ FollowsOrder(OperationOf(IssuesOfSection(4)), NamesOfLayer(ManualOps), 0, 1, 1)
    /\ FollowsOrder(OperationOf(IssuesOfSection(5)), NamesOfLayer(OverrideOps), 0, 1, 1)
    /\ Len(IssuesOfSection(1)) = InventoryFaults
    /\ Len(IssuesOfSection(2)) = MappingFaultsFrom(1)
    /\ Len(IssuesOfSection(3)) = RepeatsIn(OpenapiOps)
    /\ Len(IssuesOfSection(4))
         = RepeatsIn(ManualOps) + MembersIn(ManualOps, LayerNames(OpenapiOps))
    /\ Len(IssuesOfSection(5))
         = RepeatsIn(OverrideOps)
           + MembersIn(OverrideOps, LayerNames(OverrideOps) \ BaseNames)

\* A validation that found two discovered methods missing, issues of two
\* mapping entries, and issues of the openapi, the manual and the override
\* layer.
C11_Witness ==
  /\ last = "validate"
  /\ Len(IssuesOfSection(1)) = 2
  /\ Cardinality(SeqToSet(MethodOf(IssuesOfSection(2)))) = 2
  /\ Len(IssuesOfSection(3)) > 0
  /\ Len(IssuesOfSection(4)) > 0
  /\ Len(IssuesOfSection(5)) > 0

Delegating == {k \in DOMAIN endpointsPre :
                 endpointsPre[k].httpMethod = "" /\ endpointsPre[k].helperMethod # ""}

Referenced(k) == <<endpointsPre[k].serviceName, endpointsPre[k].helperMethod>>

\* The links of the inventory the pass was given whose helper is missing or
\* has no verb.
BrokenLinks == {k \in Delegating :
                  \/ Referenced(k) \notin DOMAIN endpointsPre
                  \/ endpointsPre[Referenced(k)].httpMethod = ""}

C13_AsClaimed ==
  helpersLast = "resolve" =>
    /\ DOMAIN endpoints = DOMAIN endpointsPre
    /\ helperErr = NoHelperError =>
         \A k \in Delegating :
           /\ Referenced(k) \in DOMAIN endpoints
           /\ endpoints[k].httpMethod = endpoints[Referenced(k)].httpMethod
    /\ \A k \in DOMAIN endpointsPre \ Delegating :
         endpoints[k].httpMethod = endpointsPre[k].httpMethod
    /\ BrokenLinks # {} =>
         /\ helperErr # NoHelperError
         /\ helperErr.method \in BrokenLinks
         /\ helperErr.helper = Referenced(helperErr.method)
    /\ \A k \in DOMAIN endpointsPre :
         endpoints[k].urlFormats = endpointsPre[k].urlFormats

(***************************************************************************)
(* C14, as claimed: helper chains longer than one hop are not followed: if *)
(* method A has no verb and refers to helper B, and B has no verb of its   *)
(* own but refers to helper C that has one, the pass fails with an error   *)
(* for A, in whatever order the methods are visited, and A never ends up   *)
(* with C's verb.                                                          *)
(***************************************************************************)
\* The methods at the head of a chain of two hops that ends at a verb.
TwoHopHeads ==
  {a \in Delegating :
     /\ Referenced(a) \in Delegating
     /\ Referenced(a) # a
     /\ Referenced(Referenced(a)) \in DOMAIN endpointsPre
     /\ endpointsPre[Referenced(Referenced(a))].httpMethod # ""}

C14_AsClaimed ==
  helpersLast = "resolve" =>
    \A a \in TwoHopHeads :
      /\ helperErr # NoHelperError
      /\ endpoints[a].httpMethod = ""

(***************************************************************************)
(* The statements of a body as its text shows them.                        *)
(***************************************************************************)
RECURSIVE Leaves(_)
RECURSIVE ElseLeaves(_)
\* The plain statements of a statement list in source order, those of the
\* branches of an if/else in place of the if statement.
Leaves(list) ==
  IF Len(list) = 0 THEN <<>>
  ELSE (IF Head(list).kind = "IfStmt"
        THEN Leaves(Head(list).body) \o ElseLeaves(Head(list).else)
        ELSE <<Head(list)>>)
       \o Leaves(Tail(list))

ElseLeaves(else) ==
  CASE else.kind = "BlockStmt" -> Leaves(else.list)
    [] else.kind = "IfStmt" -> Leaves(<<else>>)
    [] OTHER -> <<>>

Unquoted(lit) == SubSeq(lit, 2, Len(lit) - 1)

IsCallTo(stmt, funcName) ==
  /\ stmt.kind = "AssignStmt"
  /\ Len(stmt.rhs) = 1
  /\ stmt.rhs[1].e = "CallExpr"
  /\ stmt.rhs[1].funcName = funcName

\* A statement that binds a name to a literal or to the format of a
\* formatting call, and the text it binds.
IsBinding(stmt) ==
  /\ stmt.kind = "AssignStmt"
  /\ Len(stmt.rhs) = 1
  /\ stmt.rhs[1].e = "BasicLit" \/ IsCallTo(stmt, "Sprintf")

BoundName(stmt) == stmt.lhs[1]

BoundText(stmt) ==
  IF stmt.rhs[1].e = "BasicLit" THEN Unquoted(stmt.rhs[1].value)
  ELSE Unquoted(stmt.rhs[1].args[1])

\* A query string such as "?recursive=1" is appended to a URL; it is no
\* template.
IsTemplate(text) == Len(text) = 0 \/ text[1] # "?"

IsRequest(stmt) == IsCallTo(stmt, "NewRequest")
RequestVerb(stmt) == Unquoted(stmt.rhs[1].args[1])
RequestURL(stmt) == stmt.rhs[1].args[2]

IsPassedOver(stmt) ==
  stmt.kind \in {"DeclStmt", "DeferStmt", "ExprStmt", "RangeStmt", "SwitchStmt"}

\* The templates the statements bind to name, in binding order.
TemplatesBoundTo(stmts, name) ==
  LET hits == SelectSeq(stmts, LAMBDA stmt : /\ IsBinding(stmt)
                                             /\ BoundName(stmt) = name
                                             /\ IsTemplate(BoundText(stmt)))
  IN  [k \in 1..Len(hits) |-> BoundText(hits[k])]

(***************************************************************************)
(* C15: for a body that binds a name to URL templates, by literal or       *)
(* formatting-call assignments, once or several times, and only afterwards *)
(* issues the request with verb V and that name as URL variable, the       *)
(* analysis gives httpMethod V and as urlTemplates exactly the templates   *)
(* bound to that name, in binding order, duplicates kept; bindings to      *)
(* other names contribute no template.                                     *)
(***************************************************************************)
\* The body ends with the request, and what stands before it, in branches or
\* not, are bindings and declarations.
BindsThenRequests ==
  /\ Len(body.list) > 0
  /\ IsRequest(body.list[Len(body.list)])
  /\ LET before == Leaves(SubSeq(body.list, 1, Len(body.list) - 1))
     IN  /\ \A k \in 1..Len(before) : IsBinding(before[k]) \/ IsPassedOver(before[k])
         /\ \E k \in 1..Len(before) :
              /\ IsBinding(before[k])
              /\ BoundName(before[k]) = RequestURL(body.list[Len(body.list)])

C15_BoundTemplatesInOrder ==
  (bodyLast = "parsed" /\ BindsThenRequests) =>
    LET request == body.list[Len(body.list)]
        before == Leaves(SubSeq(body.list, 1, Len(body.list) - 1))
    IN  /\ bodyErr = NoBodyError
        /\ bd.httpMethod = RequestVerb(request)
        /\ bd.urlFormats = TemplatesBoundTo(before, RequestURL(request))

\* An analysis of a body that binds u in both branches of an if/else, binds
\* v, and then requests u.
C15_Witness ==
  /\ bodyLast = "parsed"
  /\ BindsThenRequests
  /\ Len(bd.urlFormats) = 2
  /\ bd.urlFormats[1] # bd.urlFormats[2]
  /\ \E k \in 1..Len(body.list) :
       IsBinding(body.list[k]) /\ BoundName(body.list[k]) # bd.urlVarName
  /\ \E k \in 1..Len(body.list) : body.list[k].kind = "IfStmt"

(***************************************************************************)
(* C16: if the statements of one method body bind two different non-empty  *)
(* verbs, in one block or in different branches of an if/else, the         *)
(* analysis fails with an error naming both verbs and analyzes no further  *)
(* statement; binding the same verb more than once is not an error.        *)
(***************************************************************************)
\* The places among the plain statements where a verb is bound.
VerbPlaces(stmts) == {k \in 1..Len(stmts) : IsRequest(stmts[k])}

\* The first place where a verb other than the first bound verb is bound; 0
\* when there is none.
ConflictPlace(stmts) ==
  LET places == VerbPlaces(stmts)
      first == CHOOSE k \in places : \A j \in places : k <= j
      others == {k \in places : RequestVerb(stmts[k]) # RequestVerb(stmts[first])}
  IN  IF places = {} \/ others = {} THEN 0
      ELSE CHOOSE k \in others : \A j \in others : k <= j

\* The analysis has a defined handling for each of the first n statements.
Analyzable(stmts, n) ==
  \A k \in 1..n : stmts[k].kind \in {"AssignStmt", "ReturnStmt"} \/ IsPassedOver(stmts[k])

C16_ConflictingVerbs ==
  bodyLast = "parsed" =>
    LET stmts == Leaves(body.list)
        at == ConflictPlace(stmts)
        first == CHOOSE k \in VerbPlaces(stmts) : \A j \in VerbPlaces(stmts) : k <= j
    IN  /\ (at # 0 /\ Analyzable(stmts, at)) =>
              /\ bodyErr = ErrTwoMethods(RequestVerb(stmts[first]), RequestVerb(stmts[at]))
              /\ analyzed = SubSeq(stmts, 1, at)
        /\ at = 0 => bodyErr.msg # ErrTwoMethods(<<>>, <<>>).msg

\* An analysis that failed on the two verbs bound in the branches of an
\* if/else, with a statement left after it; and bodies exist that bind one
\* verb twice.
C16_Witness ==
  /\ bodyLast = "parsed"
  /\ bodyErr = ErrTwoMethods(TextGET, TextPOST)
  /\ \E k \in 1..Len(body.list) :
       /\ body.list[k].kind = "IfStmt"
       /\ ConflictPlace(Leaves(<<body.list[k]>>)) # 0
       /\ k < Len(body.list)
  /\ Len(analyzed) < Len(Leaves(body.list))

(***************************************************************************)
(* C17, C18: saving and loading.                                           *)
(***************************************************************************)
\* The resolved operations of a document nothing of which is resolved yet:
\* their names, documentation URLs and file lists.
ResolvedSet(d) ==
  LET m == resolve([Methods |-> d.Methods, ManualOps |-> d.ManualOps,
                    OverrideOps |-> d.OverrideOps, OpenapiOps |-> d.OpenapiOps,
                    resolvedOps |-> [isNil |-> TRUE, ops |-> EmptyMap]])
  IN  {Fields(m.resolvedOps.ops[n]) : n \in DOMAIN m.resolvedOps.ops}

Arrangements(s) == {[i \in 1..Len(s) |-> s[p[i]]] : p \in IterationOrders(1..Len(s))}

\* The documents holding the entries of d, in any order.
Reorderings(d) ==
  {[d EXCEPT !.Methods = methods, !.ManualOps = manual, !.OverrideOps = override,
             !.OpenapiOps = openapi] :
     methods \in Arrangements(d.Methods), manual \in Arrangements(d.ManualOps),
     override \in Arrangements(d.OverrideOps), openapi \in Arrangements(d.OpenapiOps)}

Ascending(s, pairs) == \A i, j \in 1..Len(s) : i < j => <<j, i>> \notin pairs

SameOrder(d, e) ==
  /\ d.Methods = e.Methods
  /\ d.ManualOps = e.ManualOps
  /\ d.OverrideOps = e.OverrideOps
  /\ d.OpenapiOps = e.OpenapiOps

\* C18: the saved document lists each layer in ascending order of URL, then
\* verb, the methods in ascending order of name and the operation names of
\* each method in ascending order; any other order of the same entries in
\* memory gives the same file; saving a saved document changes no order.
C18_AsClaimed ==
  last = "save" =>
    /\ Ascending(ManualOps, opLessIn(ManualOps))
    /\ Ascending(OverrideOps, opLessIn(OverrideOps))
    /\ Ascending(OpenapiOps, opLessIn(OpenapiOps))
    /\ Ascending(Methods, methodLessIn(Methods))
    /\ \A i \in 1..Len(Methods) : Ascending(Methods[i].OpNames, StrLessIn(Methods[i].OpNames))
    /\ file.doc = Encode(meta, GitCommit)
    /\ \A d \in Reorderings(pre) : \A r \in SaveFile(d, GitCommit) : r.file = file
    /\ saves > 1 => SameOrder(meta, pre)


(***************************************************************************)
(* C19: normalizedURL.                                                     *)
(***************************************************************************)
\* C19: normalizing what normalizedURL returned gives it back, and a call on
\* an argument returns what the first call on that argument returned.
C19_NormalizedURLIdempotent ==
  normalizeCalls > 0 =>
    /\ NormalizeMiss(normalizeResult) = normalizeResult
    /\ normalizedURL(normalizedURLs, normalizeResult) = normalizeResult
    /\ normalizeResult = firstResults[normalizeArg]
    /\ \A u \in DOMAIN firstResults :
         /\ normalizedURL(normalizedURLs, u) = firstResults[u]
         /\ firstResults[u] \in DOMAIN firstResults
              => firstResults[firstResults[u]] = firstResults[u]

\* A template with a parameter was normalized, its result was normalized in
\* turn, and the template was normalized once more.
C19_Witness ==
  /\ repeated
  /\ normalizeResult # normalizeArg
  /\ normalizeResult \in DOMAIN firstResults

(***************************************************************************)
(* C20: resolve under concurrent callers.                                  *)
(***************************************************************************)
\* What resolve computes from the layers when it runs alone.
MergedMap ==
  resolve([Methods |-> Methods, ManualOps |-> ManualOps, OverrideOps |-> OverrideOps,
           OpenapiOps |-> OpenapiOps,
           resolvedOps |-> [isNil |-> TRUE, ops |-> EmptyMap]]).resolvedOps

\* C20: under every interleaving of getOperation, Operations and
\* getOperationsWithNormalizedName calls the merge of resolve starts at most
\* once, a caller reads m.resolvedOps only when it holds the whole merge, and
\* all callers read the same map.
C20_ResolvedOnce ==
  /\ merges <= 1
  /\ \A p \in Procs :
       /\ pc[p] = "read" => (merges = 1 /\ resolvedOps = MergedMap)
       /\ seen[p].read => seen[p].map = MergedMap
       /\ \A q \in Procs : (seen[p].read /\ seen[q].read) => seen[p].map = seen[q].map

\* Two goroutines called while nothing was resolved; one ran the merge over
\* all three layers, the other waited for the lock, and both have returned.
C20_Witness ==
  /\ merges = 1
  /\ Len(ManualOps) > 0 /\ Len(OverrideOps) > 0 /\ Len(OpenapiOps) > 1
  /\ \A p \in Procs : pc[p] = "idle" /\ seen[p].read /\ seen[p].map = resolvedOps
  /\ \E p, q \in Procs : p # q /\ call[p].kind # call[q].kind


(***************************************************************************)
(* C21: normalizedURL under concurrent callers.                            *)
(***************************************************************************)
\* The goroutines between the lock and the unlock of the cache.
InCache == {p \in Procs : urlPc[p] \in {"lookup", "compute", "store", "unlock"}}

\* C21: under every interleaving of normalizedURL calls, a call returns the
\* normalization of its own argument, at most one goroutine is between the
\* lookup and the insert, and an entry of the cache is never changed or
\* removed.
C21_CacheUnderConcurrency ==
  /\ [](/\ Cardinality(InCache) <= 1
        /\ \A p \in Procs : urlRet[p].done => urlRet[p].value = NormalizeMiss(urlArg[p])
        /\ \A u \in DOMAIN normalizedURLs : normalizedURLs[u] = NormalizeMiss(u))
  /\ [][\A u \in DOMAIN normalizedURLs :
          u \in DOMAIN normalizedURLs' /\ normalizedURLs'[u] = normalizedURLs[u]]_vars

\* Two goroutines called on the same template with a parameter: one inserted
\* the entry and returned, the other waits for the lock.
C21_Witness ==
  \E p, q \in Procs :
    /\ p # q
    /\ urlArg[p] = urlArg[q]
    /\ urlRet[p].done /\ urlRet[p].value # urlArg[p]
    /\ urlPc[q] = "lock"
    /\ urlArg[p] \in DOMAIN normalizedURLs

(***************************************************************************)
(* C22: GetDescriptions.                                                   *)
(***************************************************************************)
\* C22: when a load fails, the context is cancelled for the loads not yet
\* returned, and GetDescriptions returns the error of the first failure and no
\* files; when all loads succeed it returns the files in the order of less
\* (pattern index ascending, then major and minor descending), the order the
\* sort left before any load ended.
C22_FailFastSortedFetch ==
  /\ (fetchStage = "fetching" /\ Len(failures) > 0) => ctxCancelled
  /\ (fetchStage = "returned" /\ dir # <<>>) =>
       IF Len(failures) > 0
       THEN /\ fetchResult.files = <<>>
            /\ fetchResult.err = ErrLoad(files[failures[1]].Filename)
       ELSE /\ fetchResult.err = NoFetchError
            /\ fetchResult.files = files
            /\ \A i \in 1..Len(files) : files[i].loaded
            /\ \A i, j \in 1..Len(files) : i < j => ~less(files[j], files[i])
            /\ \A i \in 1..Len(files) : \E k \in 1..Len(dir) : dir[k].name = files[i].Filename

\* Three files were listed out of order; either all loaded and were returned
\* in sorted order, or one failed after another had loaded and a third was
\* told of the cancelled context.
C22_Witness ==
  /\ fetchStage = "returned"
  /\ Len(files) = 3
  /\ less(MatchedFiles(dir)[2], MatchedFiles(dir)[1])
  /\ \/ Len(failures) = 0
     \/ /\ Len(failures) = 2
        /\ \E i \in 1..3 : files[i].loaded

(***************************************************************************)
(* C24: the branches of a conditional are merged by accumulation.          *)
(***************************************************************************)
\* The branches of the conditional at the k-th place of the body, in branch
\* order: the if branch, then those of the else-if chain, then the else.
RECURSIVE BranchesOf(_)
BranchesOf(stmt) ==
  <<stmt.body>> \o (CASE stmt.else.kind = "BlockStmt" -> <<stmt.else.list>>
                      [] stmt.else.kind = "IfStmt" -> BranchesOf(stmt.else)
                      [] OTHER -> <<>>)

\* The body has a conditional with at least two branches, each branch binds
\* the URL variable of the request that follows the conditional, and nothing
\* but bindings stands before the request.
BranchesBindThenRequest ==
  /\ Len(body.list) > 1
  /\ IsRequest(body.list[Len(body.list)])
  /\ \E k \in 1..(Len(body.list) - 1) :
       /\ body.list[k].kind = "IfStmt"
       /\ Len(BranchesOf(body.list[k])) > 1
       /\ \A n \in 1..Len(BranchesOf(body.list[k])) :
            \E j \in 1..Len(BranchesOf(body.list[k])[n]) :
              /\ IsBinding(BranchesOf(body.list[k])[n][j])
              /\ BoundName(BranchesOf(body.list[k])[n][j]) = RequestURL(body.list[Len(body.list)])
  /\ \A k \in 1..Len(Leaves(SubSeq(body.list, 1, Len(body.list) - 1))) :
       IsBinding(Leaves(SubSeq(body.list, 1, Len(body.list) - 1))[k])

\* C24: the analysis of a body with conditionals leaves the accumulator, and
\* the error, that the analysis of the statements of its branches, taken one
\* after another as a single block, leaves; when every branch of an if/else
\* or else-if chain binds the URL variable and the request follows the
\* conditional, urlTemplates holds the templates of all the branches in
\* branch order.
C24_BranchesAccumulate ==
  bodyLast = "parsed" =>
    /\ LET block == parseBody(bodyData("s"), BlockStmt(Leaves(body.list)))
       IN  /\ bd = block.b
           /\ bodyErr = block.err
           /\ analyzed = block.analyzed
    /\ BranchesBindThenRequest =>
         /\ bodyErr = NoBodyError
         /\ bd.urlFormats =
              TemplatesBoundTo(Leaves(SubSeq(body.list, 1, Len(body.list) - 1)),
                               RequestURL(body.list[Len(body.list)]))

\* An analysis of a body whose if, else-if and else branches bind u to three
\* different templates and whose request of u follows.
C24_Witness ==
  /\ bodyLast = "parsed"
  /\ BranchesBindThenRequest
  /\ \E k \in 1..Len(body.list) :
       /\ body.list[k].kind = "IfStmt"
       /\ Len(BranchesOf(body.list[k])) = 3
       /\ bd.urlFormats = <<BoundText(BranchesOf(body.list[k])[1][1]),
                            BoundText(BranchesOf(body.list[k])[2][1]),
                            BoundText(BranchesOf(body.list[k])[3][1])>>
       /\ Cardinality({bd.urlFormats[n] : n \in 1..3}) = 3

(***************************************************************************)
(* C25: a call of s.search supplies verb and URL.                          *)
(***************************************************************************)
IsSearch(stmt) ==
  /\ IsCallTo(stmt, "search")
  /\ stmt.rhs[1].recv = "s"
  /\ Len(stmt.rhs[1].args) > 1
  /\ stmt.rhs[1].args[1] = <<"c", "t", "x">>

SearchArg(stmt) == Unquoted(stmt.rhs[1].args[2])

SearchTemplate(stmt) == <<"s", "e", "a", "r", "c", "h", "/">> \o SearchArg(stmt)

\* The statements of the body that call s.search and were analyzed without
\* error.
SearchesAnalyzed ==
  {k \in 1..Len(analyzed) : bodyErr = NoBodyError /\ IsSearch(analyzed[k])}

\* A URL variable is discovered by the k-th statement: it is passed to
\* addOptions or to a request.
DiscoversURLVariable(stmt) == IsCallTo(stmt, "addOptions") \/ IsRequest(stmt)

\* C25: after an assignment that calls s.search with ctx first and argument
\* a, the analysis has httpMethod "GET" and urlTemplates containing
\* "search/a", whatever bindings or URL-variable discoveries stand before the
\* statement, and no helper reference.
C25_AsClaimed ==
  bodyLast = "parsed" =>
    \A k \in SearchesAnalyzed :
      /\ bd.httpMethod = <<"G", "E", "T">>
      /\ \E n \in 1..Len(bd.urlFormats) : bd.urlFormats[n] = SearchTemplate(analyzed[k])
      /\ bd.helperMethod = ""

\* What the analysis does give: after such an assignment it has httpMethod
\* "GET" and no helper reference, whatever stands before the statement; its
\* urlTemplates contain "search/a" whatever bindings stand before it, as long
\* as no URL variable was discovered before it.
C25_NoEarlierDiscovery ==
  bodyLast = "parsed" =>
    \A k \in SearchesAnalyzed :
      /\ bd.httpMethod = <<"G", "E", "T">>
      /\ bd.helperMethod = ""
      /\ (\A j \in 1..(k - 1) : ~DiscoversURLVariable(analyzed[j])) =>
           \E n \in 1..Len(bd.urlFormats) : bd.urlFormats[n] = SearchTemplate(analyzed[k])

\* An analysis of a body that binds u and v and then calls s.search: the
\* templates are the one bound to u and the one of the search.
C25_BoundThenSearched ==
  /\ bodyLast = "parsed"
  /\ SearchesAnalyzed = {3}
  /\ IsBinding(analyzed[1]) /\ IsBinding(analyzed[2])
  /\ BoundName(analyzed[1]) # BoundName(analyzed[2])
  /\ Len(bd.urlFormats) = 2
  /\ bd.urlFormats[2] = SearchTemplate(analyzed[3])
  /\ bd.httpMethod = <<"G", "E", "T">>

(***************************************************************************)
(* C27: the method mapping after a failed CanonizeMethodOperations.        *)
(***************************************************************************)
\* C27: when CanonizeMethodOperations returns an error, the method mapping
\* is exactly as before the call: no entry that precedes the failing one has
\* been rewritten.
C27_AsClaimed ==
  (last = "canonize" /\ canonErr # NoError) => Methods = pre.Methods

\* C27, amended: when CanonizeMethodOperations returns an error, the failing
\* entry and every entry after it in the order of the walk are as before the
\* call; an entry before it is as before when the resolved view has it
\* verbatim, and has been rewritten to its one normalized match when not.
C27_FailureKeepsTheRest ==
  (last = "canonize" /\ canonErr # NoError) =>
    /\ SameShape(Methods, pre.Methods)
    /\ \E e \in Entries(pre.Methods) :
         /\ FirstUnsettled(pre.Methods, e)
         /\ canonErr.method = pre.Methods[e[1]].Name
         /\ canonErr.opName = EntryAt(pre.Methods, e)
         /\ \A f \in Entries(pre.Methods) :
              IF Earlier(f, e) /\ EntryAt(pre.Methods, f) \notin ViewNames
              THEN Matches(EntryAt(pre.Methods, f)) = {EntryAt(Methods, f)}
              ELSE EntryAt(Methods, f) = EntryAt(pre.Methods, f)

\* A call that rewrote an entry and then failed on a later one.
C27_Witness ==
  /\ last = "canonize"
  /\ canonErr # NoError
  /\ Methods # pre.Methods
  /\ \E e \in Entries(Methods) : EntryAt(Methods, e) = canonErr.opName

(***************************************************************************)
(* C28: canonicalization and duplicates within a method.                   *)
(***************************************************************************)
\* No method of the mapping lists one operation name twice.
NoNameTwice(methods) ==
  \A e, f \in Entries(methods) :
    (e[1] = f[1] /\ e[2] # f[2]) => EntryAt(methods, e) # EntryAt(methods, f)

\* No method of the mapping lists two names of one normalized name.
NoNormalizedNameTwice(methods) ==
  \A e, f \in Entries(methods) :
    (e[1] = f[1] /\ e[2] # f[2]) =>
      ~SameNormalizedName(EntryAt(methods, e), EntryAt(methods, f))

\* The ValidateMetadata that follows reports a duplicate operation.
DuplicateReported ==
  LET result == ValidateMetadata(meta, normalizedURLs, serviceMethods).result
  IN  \E i \in 1..Len(result) : result[i].msg = MsgDuplicateOperation

\* C28: if no method lists the same operation name twice before
\* CanonizeMethodOperations, none does after it, and the ValidateMetadata
\* that follows reports no "has duplicate operation" issue.
C28_AsClaimed ==
  (last = "canonize" /\ NoNameTwice(pre.Methods)) =>
    NoNameTwice(Methods) /\ ~DuplicateReported

\* C28, amended: if no method lists two operation names of the same
\* normalized name before CanonizeMethodOperations, none lists the same
\* operation name twice after it, and the ValidateMetadata that follows
\* reports no "has duplicate operation" issue.
C28_NoDuplicateIntroduced ==
  (last = "canonize" /\ NoNormalizedNameTwice(pre.Methods)) =>
    NoNameTwice(Methods) /\ ~DuplicateReported

\* A successful call that rewrote an entry of a method with two entries.
C28_Witness ==
  /\ last = "canonize"
  /\ canonErr = NoError
  /\ NoNormalizedNameTwice(pre.Methods)
  /\ \E i \in 1..Len(Methods) :
       /\ Len(Methods[i].OpNames) = 2
       /\ Methods[i] # pre.Methods[i]

(***************************************************************************)
(* C30: the list a sequence of addOperation calls builds.                  *)
(***************************************************************************)
\* The calls that named the operation, in call order.
CallsNaming(opName) == SelectSeq(addCalls, LAMBDA c : c.opName = opName)

\* The file name has "/ghes" in it.
IsGhesFile(f) ==
  \E i \in 1..Len(f) :
    /\ i + 4 <= Len(f)
    /\ f[i] = "/" /\ f[i + 1] = "g" /\ f[i + 2] = "h" /\ f[i + 3] = "e" /\ f[i + 4] = "s"

\* The file names of the calls, those with "/ghes" after the first such left
\* out.
RECURSIVE FirstGhesOnly(_, _)
FirstGhesOnly(calls, ghesSeen) ==
  IF Len(calls) = 0 THEN <<>>
  ELSE LET f == Head(calls).filename
       IN  IF IsGhesFile(f) /\ ghesSeen THEN FirstGhesOnly(Tail(calls), ghesSeen)
           ELSE <<f>> \o FirstGhesOnly(Tail(calls), ghesSeen \/ IsGhesFile(f))

\* C30: after any sequence of addOperation calls from the empty list, every
\* operation name of a call is in the list exactly once and the list has no
\* other; its documentationURL is that of the first call that named it; its
\* file list holds the file names of the calls that named it in call order,
\* with never more than one that contains "/ghes": the first such.
C30_AddOperationBuildsList ==
  /\ \A i \in 1..Len(opList) : \E k \in 1..Len(addCalls) : addCalls[k].opName = opList[i].Name
  /\ \A k \in 1..Len(addCalls) :
       LET named == {i \in 1..Len(opList) : opList[i].Name = addCalls[k].opName}
           calls == CallsNaming(addCalls[k].opName)
       IN  /\ Cardinality(named) = 1
           /\ \A i \in named :
                /\ opList[i].DocumentationURL = calls[1].docURL
                /\ opList[i].OpenAPIFiles = FirstGhesOnly(calls, FALSE)
                /\ Cardinality({n \in 1..Len(opList[i].OpenAPIFiles) :
                                  IsGhesFile(opList[i].OpenAPIFiles[n])}) <= 1

\* Three calls named one operation with two "/ghes" files and different
\* documentation URLs: the second "/ghes" file was left out.
C30_Witness ==
  /\ Len(addCalls) = 3
  /\ Len(opList) = 1
  /\ IsGhesFile(addCalls[1].filename) /\ IsGhesFile(addCalls[3].filename)
  /\ addCalls[1].filename # addCalls[3].filename
  /\ ~IsGhesFile(addCalls[2].filename)
  /\ addCalls[1].docURL # addCalls[2].docURL
  /\ Len(opList[1].OpenAPIFiles) = 2

(***************************************************************************)
(* C23: what a remote refresh touches.                                     *)
(***************************************************************************)
\* C23: after a successful UpdateFromGithub the openapi layer is the list of
\* operations of the remote description as fetched, and the manual layer,
\* the override layer and the method mapping are as before; after a failed
\* one (commit lookup or fetch) the whole Metadata, openapi_commit included,
\* is as before.
C23_RefreshReplacesOpenapiOnly ==
  last = "update" =>
    /\ ManualOps = pre.ManualOps
    /\ OverrideOps = pre.OverrideOps
    /\ Methods = pre.Methods
    /\ IF refreshErr = ""
       THEN OpenapiOps = RemoteOps(head)
       ELSE /\ OpenapiOps = pre.OpenapiOps
            /\ resolvedOps = pre.resolvedOps
            /\ GitCommit = preCommit

\* A refresh that replaced the openapi layer of a document with a manual and
\* an override layer.
C23_Witness ==
  /\ last = "update"
  /\ refreshErr = ""
  /\ OpenapiOps # pre.OpenapiOps
  /\ ManualOps # <<>>
  /\ OverrideOps # <<>>

C29_AsClaimed ==
  (last = "update" /\ refreshErr = "") =>
    /\ RemoteOps(GitCommit) = OpenapiOps
    /\ ValidateGitCommit(meta, GitCommit, getOpsFromGithub(GitCommit, "ok")).msg = ""

\* What does hold: the same where the marker was a sync point before the call
\* and the call either recorded the commit the descriptions were fetched at
\* or recorded nothing.
C29_SyncKept ==
  (/\ last = "update" /\ refreshErr = ""
   /\ RemoteOps(preCommit) = pre.OpenapiOps
   /\ \/ GitCommit = head
      \/ GitCommit = preCommit /\ OpenapiOps = pre.OpenapiOps) =>
    /\ RemoteOps(GitCommit) = OpenapiOps
    /\ ValidateGitCommit(meta, GitCommit, getOpsFromGithub(GitCommit, "ok")).msg = ""

=============================================================================
